---------------------------- MODULE Spec2Model ----------------------------
(***************************************************************************)
(* Model of the compound option-string engine of virtinst/cli.py:          *)
(* parse_optstr_tuples (tokenizer), _parse_optstr_to_dict (dict builder),  *)
(* _VirtCLIArgumentStatic / _VirtCLIArgument (descriptors and binder) and  *)
(* VirtCLIParser (parse / lookup_child_from_option_string).                *)
(*                                                                         *)
(* Python strings are sequences of one-character strings.  Python's None,  *)
(* True and False are the one-element sequences None, True and False whose *)
(* element is longer than one character, so they differ from every string. *)
(***************************************************************************)
EXTENDS Integers, Sequences, FiniteSets, TLC

None == <<"<None>">>
True == <<"<True>">>
False == <<"<False>">>

\* Python truthiness of a string-or-None value: `if val:`
Truthy(v) == v # None /\ v # <<>> /\ v # False

IsStr(v) == v # None /\ v # True /\ v # False

RECURSIVE IndexOf(_, _, _)
\* first index >= i at which character c occurs in s, or 0
IndexOf(s, c, i) ==
    IF i > Len(s) THEN 0
    ELSE IF s[i] = c THEN i
    ELSE IndexOf(s, c, i + 1)

Max(a, b) == IF a >= b THEN a ELSE b

Min(a, b) == IF a <= b THEN a ELSE b

-----------------------------------------------------------------------------
(* shlex.shlex(optstr, posix=True) with commenters = "", whitespace = ",",  *)
(* whitespace_split = True, as parse_optstr_tuples configures it.           *)

whitespace == {","}
quotes == {"'", "\""}
escape == {"\\"}
escapedquotes == {"\""}

\* the first position >= i of s that holds a character of set, Len(s) + 1
\* when there is none: where a run of ordinary characters ends
NextIn(s, i, set) ==
    LET js == { j \in i..Len(s) : s[j] \in set }
    IN IF js = {} THEN Len(s) + 1 ELSE CHOOSE j \in js : \A k \in js : j <= k

RECURSIVE read_token(_, _, _, _, _, _)
\* One call of shlex.read_token: s the stream, i the next character to
\* read, state the lexer state kept across calls, token/quoted/escapedstate
\* the locals.  Result: [err, result, pos, state]; result None is EOF.
read_token(s, i, state, token, quoted, escapedstate) ==
    LET eof == i > Len(s)
        c == IF eof THEN "" ELSE s[i]
        Emit(st, p) ==
            [err |-> "", pos |-> p, state |-> st,
             result |-> IF ~quoted /\ token = <<>> THEN None ELSE token]
        Fail(msg) == [err |-> msg, pos |-> i, state |-> state, result |-> None]
    IN
    IF state = "None" THEN
        [err |-> "", pos |-> i, state |-> state, result |-> None]
    ELSE IF state = " " THEN
        IF eof THEN Emit("None", i)
        ELSE IF c \in whitespace THEN
            IF token # <<>> \/ quoted THEN Emit(state, i + 1)
            ELSE read_token(s, i + 1, state, token, quoted, escapedstate)
        ELSE IF c \in escape THEN
            read_token(s, i + 1, c, token, quoted, "a")
        ELSE IF c \in quotes THEN
            read_token(s, i + 1, c, token, quoted, escapedstate)
        ELSE read_token(s, i + 1, "a", <<c>>, quoted, escapedstate)
    ELSE IF state \in quotes THEN
        IF eof THEN Fail("No closing quotation")
        ELSE IF c = state THEN
            read_token(s, i + 1, "a", token, TRUE, escapedstate)
        ELSE IF c \in escape /\ state \in escapedquotes THEN
            read_token(s, i + 1, c, token, TRUE, state)
        ELSE read_token(s, i + 1, state, Append(token, c), TRUE, escapedstate)
    ELSE IF state \in escape THEN
        IF eof THEN Fail("No escaped character")
        ELSE
            LET t1 == IF escapedstate \in quotes /\ c # state /\ c # escapedstate
                      THEN Append(token, state) ELSE token
            IN read_token(s, i + 1, escapedstate, Append(t1, c), quoted,
                          escapedstate)
    ELSE \* state = "a"
        IF eof THEN Emit("None", i)
        ELSE IF c \in whitespace THEN
            IF token # <<>> \/ quoted THEN Emit(" ", i + 1)
            ELSE read_token(s, i + 1, " ", token, quoted, escapedstate)
        ELSE IF c \in quotes THEN
            read_token(s, i + 1, c, token, quoted, escapedstate)
        ELSE IF c \in escape THEN
            read_token(s, i + 1, c, token, quoted, "a")
        ELSE \* the characters up to the next whitespace, quote or escape
             \* are appended one by one in this state
             LET j == NextIn(s, i, whitespace \cup quotes \cup escape)
             IN read_token(s, j, state, token \o SubSeq(s, i, j - 1), quoted,
                           escapedstate)

RECURSIVE shlex_list(_, _, _, _)
\* list(argsplitter): tokens until get_token returns eof (None)
shlex_list(s, i, state, acc) ==
    LET r == read_token(s, i, state, <<>>, FALSE, " ")
    IN IF r.err # "" THEN [err |-> r.err, toks |-> <<>>]
       ELSE IF r.result = None THEN [err |-> "", toks |-> acc]
       ELSE shlex_list(s, r.pos, r.state, Append(acc, r.result))

\* a split at the last "="
split_opt_last(opt) ==
    LET k == CHOOSE n \in 0..Len(opt) :
                 /\ n # 0 => opt[n] = "="
                 /\ \A m \in (n + 1)..Len(opt) : opt[m] # "="
    IN IF k = 0 THEN <<opt, None>>
       ELSE <<SubSeq(opt, 1, k - 1), SubSeq(opt, k + 1, Len(opt))>>

\* a split that would give a token without "=" the empty string as value
split_opt_empty(opt) ==
    LET k == IndexOf(opt, "=", 1)
    IN <<SubSeq(opt, 1, IF k = 0 THEN Len(opt) ELSE k - 1),
         SubSeq(opt, (IF k = 0 THEN Len(opt) ELSE k) + 1, Len(opt))>>

\* opt.split("=", 1) or (opt, None)
split_opt(opt) ==
    LET k == IndexOf(opt, "=", 1)
    IN IF k = 0 THEN <<opt, None>>
       ELSE <<SubSeq(opt, 1, k - 1), SubSeq(opt, k + 1, Len(opt))>>

RECURSIVE opts_to_tuples_keep_empty(_)
\* a loop without `if not opt: continue`
opts_to_tuples_keep_empty(opts) ==
    IF opts = <<>> THEN <<>>
    ELSE <<split_opt(Head(opts))>> \o opts_to_tuples_keep_empty(Tail(opts))

RECURSIVE opts_to_tuples(_)
\* the loop `for opt in list(argsplitter)`
opts_to_tuples(opts) ==
    IF opts = <<>> THEN <<>>
    ELSE IF Head(opts) = <<>> THEN opts_to_tuples(Tail(opts))
    ELSE <<split_opt(Head(opts))>> \o opts_to_tuples(Tail(opts))

\* parse_optstr_tuples(optstr): [err, tuples]
parse_optstr_tuples(optstr) ==
    LET l == shlex_list(optstr, 1, " ", <<>>)
    IN [err |-> l.err,
        tuples |-> IF l.err # "" THEN <<>> ELSE opts_to_tuples(l.toks)]

-----------------------------------------------------------------------------
(* Regular expressions as match_name and _make_find_inst_cb use them.  A   *)
(* pattern is the character sequence of the Python string; the operators   *)
(* interpret the three constructs the registered names contain: a literal  *)
(* character, "." (any character) and "[0-9]*".                            *)

Digits == {"0", "1", "2", "3", "4", "5", "6", "7", "8", "9"}

DigitChars == <<"0", "1", "2", "3", "4", "5", "6", "7", "8", "9">>

DigitVal(c) == CHOOSE n \in 0..9 : DigitChars[n + 1] = c

DigitStar == <<"[", "0", "-", "9", "]", "*">>

RECURSIVE re_match(_, _, _, _)
\* re.match("^%s$" % pat, s), from pattern position p and string position j
re_match(pat, p, s, j) ==
    IF p > Len(pat) THEN j > Len(s)
    ELSE IF pat[p] = "[" THEN
        \/ re_match(pat, p + Len(DigitStar), s, j)
        \/ (j <= Len(s) /\ s[j] \in Digits /\ re_match(pat, p, s, j + 1))
    ELSE /\ j <= Len(s)
         /\ (pat[p] = "." \/ pat[p] = s[j])
         /\ re_match(pat, p + 1, s, j + 1)

StartsWithAt(s, i, pre) ==
    /\ i + Len(pre) - 1 <= Len(s)
    /\ SubSeq(s, i, i + Len(pre) - 1) = pre

RECURSIVE digits_int(_, _, _)
\* int() of the maximal run of digits of s that starts at i, acc so far
digits_int(s, i, acc) ==
    IF i > Len(s) \/ s[i] \notin Digits THEN acc
    ELSE digits_int(s, i + 1, acc * 10 + DigitVal(s[i]))

RECURSIVE re_search_num(_, _, _)
\* re.search(r"%s(\d+)" % cliarg, key): the integer of group 1 of the
\* leftmost match, or -1 when nothing matches
re_search_num(cliarg, key, i) ==
    IF i > Len(key) THEN -1
    ELSE IF /\ StartsWithAt(key, i, cliarg)
            /\ i + Len(cliarg) <= Len(key)
            /\ key[i + Len(cliarg)] \in Digits
         THEN digits_int(key, i + Len(cliarg), 0)
    ELSE re_search_num(cliarg, key, i + 1)

-----------------------------------------------------------------------------
(* _VirtCLIArgumentStatic: propname, cb, lookup_cb and find_inst_cb are    *)
(* names, "" standing for None; lookup_cb "-1" is the default of the       *)
(* argument, lookup_cb not given.  err is the RuntimeError __init__ raises, *)
(* "" when it raises none.                                                 *)

\* an __init__ without the check of lookup_cb
VirtCLIArgumentStatic_no_lookup_check(cliname, propname, cb, cc, igd, aliases, onoff, lcb, fcb) ==
    [cliname |-> cliname, propname |-> propname, cb |-> cb,
     can_comma |-> cc, ignore_default |-> igd,
     aliases |-> aliases, is_onoff |-> onoff,
     lookup_cb |-> IF lcb = "-1" THEN "" ELSE lcb,
     find_inst_cb |-> fcb,
     err |-> IF propname = "" /\ cb = ""
             THEN "propname or cb must be specified"
             ELSE ""]

\* __init__(cliname, propname, cb, can_comma, ignore_default, aliases,
\*          is_onoff, lookup_cb, find_inst_cb)
VirtCLIArgumentStatic(cliname, propname, cb, cc, igd, aliases, onoff, lcb, fcb) ==
    [cliname |-> cliname, propname |-> propname, cb |-> cb,
     can_comma |-> cc, ignore_default |-> igd,
     aliases |-> aliases, is_onoff |-> onoff,
     lookup_cb |-> IF lcb = "-1" THEN "" ELSE lcb,
     find_inst_cb |-> fcb,
     err |-> IF propname = "" /\ cb = ""
             THEN "propname or cb must be specified"
             ELSE IF propname = "" /\ lcb = "-1"
             THEN "propname is None but lookup_cb is not specified"
             ELSE ""]

\* the common case add_arg(cliname, propname)
Arg(cliname, propname) ==
    VirtCLIArgumentStatic(cliname, propname, "", FALSE, FALSE, <<>>, FALSE,
                          "-1", "")

\* _VirtCLIArgumentStatic.match_name
match_name(virtarg, cliname) ==
    \E argname \in {virtarg.cliname} \cup
                   {virtarg.aliases[i] : i \in DOMAIN virtarg.aliases} :
        re_match(argname, 1, cliname, 1)

clearxml == <<"c", "l", "e", "a", "r", "x", "m", "l">>

\* add_arg: _VirtCLIArgumentStatic("clearxml", None, cb=cls._clearxml_cb,
\*                                 lookup_cb=None, is_onoff=True)
clearxml_virtarg ==
    VirtCLIArgumentStatic(clearxml, "", "_clearxml_cb", FALSE, FALSE, <<>>,
                          TRUE, "", "")

\* VirtCLIParser.add_arg: the first registration puts clearxml in front
add_arg(virtargs, virtarg) ==
    IF virtargs = <<>>
    THEN <<clearxml_virtarg, virtarg>>
    ELSE Append(virtargs, virtarg)

RECURSIVE add_args(_, _)
\* the add_arg calls of one _init_class, in order
add_args(virtargs, args) ==
    IF args = <<>> THEN virtargs
    ELSE add_args(add_arg(virtargs, Head(args)), Tail(args))

-----------------------------------------------------------------------------
(* print_introspection: sorted(cls._virtargs, key=_sortkey) compares the   *)
(* keys as Python compares str, code point by code point.                  *)

\* the characters of option names, in the order of their code points
CodePoints == <<"*", "-", ".", "0", "1", "2", "3", "4", "5", "6", "7", "8", "9", "A", "B", "C", "D", "E", "F", "G", "H", "I", "J", "K", "L", "M", "N", "O", "P", "Q", "R", "S", "T", "U", "V", "W", "X", "Y", "Z", "[", "]", "_", "a", "b", "c", "d", "e", "f", "g", "h", "i", "j", "k", "l", "m", "n", "o", "p", "q", "r", "s", "t", "u", "v", "w", "x", "y", "z">>

\* ord(c), up to the offset the comparison does not see
ord(c) == CHOOSE i \in DOMAIN CodePoints : CodePoints[i] = c

RECURSIVE str_lt(_, _)
\* a < b of two str
str_lt(a, b) ==
    IF b = <<>> THEN FALSE
    ELSE IF a = <<>> THEN TRUE
    ELSE IF a[1] # b[1] THEN ord(a[1]) < ord(b[1])
    ELSE str_lt(Tail(a), Tail(b))

s_address_dot == <<"a", "d", "d", "r", "e", "s", "s", ".">>

\* a _sortkey without the prefixes
sortkey_plain(virtarg) == virtarg.cliname

\* print_introspection._sortkey
sortkey(virtarg) ==
    LET prefix0 == IF virtarg.cliname = clearxml THEN <<"0">> ELSE <<>>
        prefix == IF StartsWithAt(virtarg.cliname, 1, s_address_dot)
                  THEN <<"1">> ELSE prefix0
    IN prefix \o virtarg.cliname

RECURSIVE insort(_, _)
\* sorted() is stable: a descriptor goes behind those whose key is not
\* greater than its own
insort(done, virtarg) ==
    IF done = <<>> THEN <<virtarg>>
    ELSE IF str_lt(sortkey(virtarg), sortkey(Head(done)))
         THEN <<virtarg>> \o done
    ELSE <<Head(done)>> \o insort(Tail(done), virtarg)

RECURSIVE sorted_virtargs(_)
\* sorted(cls._virtargs, key=_sortkey)
sorted_virtargs(virtargs) ==
    IF virtargs = <<>> THEN <<>>
    ELSE insort(sorted_virtargs(SubSeq(virtargs, 1, Len(virtargs) - 1)),
                virtargs[Len(virtargs)])

\* a print_introspection that prints the sort keys
print_introspection_keys(virtargs) ==
    LET sorted == sorted_virtargs(virtargs)
    IN [i \in DOMAIN sorted |-> sortkey(sorted[i])]

\* print_introspection: the arg.cliname lines it prints, in order
print_introspection(virtargs) ==
    LET sorted == sorted_virtargs(virtargs)
    IN [i \in DOMAIN sorted |-> sorted[i].cliname]

-----------------------------------------------------------------------------
(* _parse_optstr_to_dict.  An OrderedDict is a sequence of <<key, value>>  *)
(* pairs with distinct keys.                                               *)

dict_keys(d) == [i \in DOMAIN d |-> d[i][1]]

dict_has(d, k) == \E i \in DOMAIN d : d[i][1] = k

dict_get(d, k) == d[CHOOSE i \in DOMAIN d : d[i][1] = k][2]

\* d[k] = v: a present key keeps its position
dict_set(d, k, v) ==
    IF dict_has(d, k)
    THEN [i \in DOMAIN d |-> IF d[i][1] = k THEN <<k, v>> ELSE d[i]]
    ELSE Append(d, <<k, v>>)

\* d.pop(k)
dict_pop(d, k) == SelectSeq(d, LAMBDA e : e[1] # k)

\* _lookup_virtarg: the first registered descriptor that matches, 0 if none
lookup_virtarg(virtargs, cliname) ==
    IF \E i \in DOMAIN virtargs : match_name(virtargs[i], cliname)
    THEN CHOOSE i \in DOMAIN virtargs :
            /\ match_name(virtargs[i], cliname)
            /\ \A j \in 1..(i - 1) : ~match_name(virtargs[j], cliname)
    ELSE 0

\* a splice that would go on past a token that has a value
splice_remove_first_all(opttuples, idx, remove_first) ==
    LET bare == { i \in DOMAIN opttuples : opttuples[i][2] = None }
        nth(i) == Cardinality({ j \in bare : j <= i })
    IN [i \in DOMAIN opttuples |->
            IF i \in bare /\ nth(i) <= Len(remove_first)
            THEN <<remove_first[nth(i)], opttuples[i][1]>>
            ELSE opttuples[i]]

RECURSIVE splice_remove_first(_, _, _)
\* "Splice in remove_first names upfront"
splice_remove_first(opttuples, idx, remove_first) ==
    IF idx > Len(opttuples) THEN opttuples
    ELSE IF opttuples[idx][2] # None \/ remove_first = <<>> THEN opttuples
    ELSE splice_remove_first(
            [opttuples EXCEPT ![idx] = <<Head(remove_first), opttuples[idx][1]>>],
            idx + 1, Tail(remove_first))

RECURSIVE consume_comma_arg(_, _, _)
\* _consume_comma_arg: [err, val, rest]; `None += str` is a TypeError
consume_comma_arg(virtargs, val, opttuples) ==
    IF opttuples = <<>> THEN [err |-> "", val |-> val, rest |-> opttuples]
    ELSE IF lookup_virtarg(virtargs, Head(opttuples)[1]) # 0
         THEN [err |-> "", val |-> val, rest |-> opttuples]
    ELSE IF val = None
         THEN [err |-> "TypeError", val |-> val, rest |-> opttuples]
    ELSE LET cliname == Head(opttuples)[1]
             v == Head(opttuples)[2]
             v1 == val \o <<",">> \o cliname
             v2 == IF Truthy(v) THEN v1 \o <<"=">> \o v ELSE v1
         IN consume_comma_arg(virtargs, v2, Tail(opttuples))

RECURSIVE scan_opttuples(_, _, _)
\* the `while opttuples:` loop: [err, optdict]
scan_opttuples(virtargs, opttuples, optdict) ==
    IF opttuples = <<>> THEN [err |-> "", optdict |-> optdict]
    ELSE
        LET cliname == Head(opttuples)[1]
            val == Head(opttuples)[2]
            k == lookup_virtarg(virtargs, cliname)
        IN IF k = 0 \/ ~virtargs[k].can_comma
           THEN scan_opttuples(virtargs, Tail(opttuples),
                               dict_set(optdict, cliname, val))
           ELSE LET c == consume_comma_arg(virtargs, val, Tail(opttuples))
                IN IF c.err # "" THEN [err |-> c.err, optdict |-> optdict]
                   ELSE scan_opttuples(virtargs, c.rest,
                                       dict_set(optdict, cliname, c.val))

-----------------------------------------------------------------------------
(* The parser classes of the model: four of the classes of cli.py, each    *)
(* with the class attributes it sets and the add_arg calls of its          *)
(* _init_class that the model's option strings can name.                   *)

s_type == <<"t", "y", "p", "e">>
s_model == <<"m", "o", "d", "e", "l">>
s_mode == <<"m", "o", "d", "e">>
s_relabel == <<"r", "e", "l", "a", "b", "e", "l">>
s_label == <<"l", "a", "b", "e", "l">>
s_baselabel == <<"b", "a", "s", "e">> \o s_label
s_accessmode == <<"a", "c", "c", "e", "s", "s">> \o s_mode
s_source == <<"s", "o", "u", "r", "c", "e">>
s_target == <<"t", "a", "r", "g", "e", "t">>
s_address_type == s_address_dot \o s_type
s_secure == <<"s", "e", "c", "u", "r", "e">>
s_cell == <<"c", "e", "l", "l">>
s_cell_id == s_cell \o DigitStar \o <<".", "i", "d">>
s_cell_cpus == s_cell \o DigitStar \o <<".", "c", "p", "u", "s">>
s_sibling == <<"s", "i", "b", "l", "i", "n", "g">>
s_distances == <<"d", "i", "s", "t", "a", "n", "c", "e", "s">>
s_sibling_id == s_cell \o DigitStar \o <<".">> \o s_distances \o <<".">> \o s_sibling \o DigitStar \o <<".", "i", "d">>
s_profile == <<"p", "r", "o", "f", "i", "l", "e">>
s_admin_password == <<"a", "d", "m", "i", "n", "-", "p", "a", "s", "s", "w", "o", "r", "d">>
s_none == <<"n", "o", "n", "e">>
s_bus == <<"b", "u", "s">>
s_default == <<"d", "e", "f", "a", "u", "l", "t">>
s_network == <<"n", "e", "t", "w", "o", "r", "k">>
s_bridge == <<"b", "r", "i", "d", "g", "e">>
s_char_type == <<"c", "h", "a", "r", "_", "t", "y", "p", "e">>
s_path == <<"p", "a", "t", "h">>
s_protocol == <<"p", "r", "o", "t", "o", "c", "o", "l">>
s_target_type == <<"t", "a", "r", "g", "e", "t", "_", "t", "y", "p", "e">>
s_name == <<"n", "a", "m", "e">>
s_host == <<"h", "o", "s", "t">>
s_bind_host == <<"b", "i", "n", "d", "_", "h", "o", "s", "t">>
s_target_address == <<"t", "a", "r", "g", "e", "t", "_", "a", "d", "d", "r", "e", "s", "s">>
s_source_master == <<"s", "o", "u", "r", "c", "e", ".", "m", "a", "s", "t", "e", "r">>
s_source_slave == <<"s", "o", "u", "r", "c", "e", ".", "s", "l", "a", "v", "e">>
s_log_file == <<"l", "o", "g", ".", "f", "i", "l", "e">>
s_log_append == <<"l", "o", "g", ".", "a", "p", "p", "e", "n", "d">>

\* ParserSecurity._init_class
ParserSecurity_virtargs ==
    add_args(<<>>, <<
        Arg(s_type, "type"),
        Arg(s_model, "model"),
        [Arg(s_relabel, "relabel") EXCEPT !.is_onoff = TRUE],
        [Arg(s_label, "label") EXCEPT !.can_comma = TRUE],
        [Arg(s_baselabel, "baselabel") EXCEPT !.can_comma = TRUE] >>)

\* ParserFilesystem._init_class (of _add_device_address_args, address.type)
ParserFilesystem_virtargs ==
    add_args(<<>>, <<
        Arg(s_address_type, "address.type"),
        Arg(s_type, "type"),
        [Arg(s_accessmode, "accessmode") EXCEPT !.aliases = <<s_mode>>],
        Arg(s_source, "source"),
        Arg(s_target, "target") >>)

\* ParserCPU._init_class (model, secure, the cell id/cpus options and the
\* id of a cell's sibling)
ParserCPU_virtargs ==
    add_args(<<>>, <<
        [Arg(s_model, "model") EXCEPT !.cb = "set_model_cb"],
        [Arg(s_secure, "secure") EXCEPT !.is_onoff = TRUE],
        [Arg(s_cell_id, "id") EXCEPT !.find_inst_cb = "cell_find_inst_cb"],
        [Arg(s_cell_cpus, "cpus") EXCEPT !.can_comma = TRUE,
                                         !.find_inst_cb = "cell_find_inst_cb"],
        [Arg(s_sibling_id, "id") EXCEPT !.find_inst_cb = "sibling_find_inst_cb"] >>)

\* ParserUnattended._init_class (profile, admin-password)
ParserUnattended_virtargs ==
    add_args(<<>>, <<
        Arg(s_profile, "profile"),
        Arg(s_admin_password, "admin_password") >>)

\* ParserInput._init_class (of _add_device_address_args, address.type)
ParserInput_virtargs ==
    add_args(<<>>, <<
        Arg(s_address_type, "address.type"),
        [Arg(s_type, "type") EXCEPT !.ignore_default = TRUE],
        [Arg(s_bus, "bus") EXCEPT !.ignore_default = TRUE] >>)

\* ParserNetwork._init_class (of _add_device_address_args, address.type;
\* type, source, model)
ParserNetwork_virtargs ==
    add_args(<<>>, <<
        Arg(s_address_type, "address.type"),
        [Arg(s_type, "type") EXCEPT !.cb = "set_type_cb"],
        Arg(s_source, "source"),
        Arg(s_model, "model") >>)

\* a _ParserChar._init_class without `if cls._virtargs: return`
ParserChar_init_class_again(virtargs) ==
    add_args(virtargs, <<
        Arg(s_char_type, "type"),
        Arg(s_path, "source_path"),
        Arg(s_protocol, "protocol"),
        Arg(s_target_type, "target_type"),
        Arg(s_name, "target_name"),
        VirtCLIArgumentStatic(s_host, "", "set_host_cb", FALSE, FALSE, <<>>, FALSE, "", ""),
        VirtCLIArgumentStatic(s_bind_host, "", "set_bind_cb", FALSE, FALSE, <<>>, FALSE, "", ""),
        VirtCLIArgumentStatic(s_target_address, "", "set_target_cb", FALSE, FALSE, <<>>, FALSE, "", ""),
        Arg(s_mode, "source_mode"),
        Arg(s_source_master, "source_master"),
        Arg(s_source_slave, "source_slave"),
        Arg(s_log_file, "log_file"),
        [Arg(s_log_append, "log_append") EXCEPT !.is_onoff = TRUE] >>)

\* _ParserChar._init_class(cls): cls._virtargs after the call; virtargs is
\* what cls._virtargs is before it, the list of _ParserChar for a subclass
ParserChar_init_class(virtargs) ==
    IF virtargs # <<>> THEN virtargs
    ELSE add_args(virtargs, <<
        Arg(s_char_type, "type"),
        Arg(s_path, "source_path"),
        Arg(s_protocol, "protocol"),
        Arg(s_target_type, "target_type"),
        Arg(s_name, "target_name"),
        VirtCLIArgumentStatic(s_host, "", "set_host_cb", FALSE, FALSE, <<>>, FALSE, "", ""),
        VirtCLIArgumentStatic(s_bind_host, "", "set_bind_cb", FALSE, FALSE, <<>>, FALSE, "", ""),
        VirtCLIArgumentStatic(s_target_address, "", "set_target_cb", FALSE, FALSE, <<>>, FALSE, "", ""),
        Arg(s_mode, "source_mode"),
        Arg(s_source_master, "source_master"),
        Arg(s_source_slave, "source_slave"),
        Arg(s_log_file, "log_file"),
        [Arg(s_log_append, "log_append") EXCEPT !.is_onoff = TRUE] >>)

\* class attributes: cli_arg_name, guest_propname ("" is None), whether
\* the guest keeps a list at guest_propname, remove_first, stub_none
ParserSecurity ==
    [cli_arg_name |-> "security", guest_propname |-> "seclabels",
     prop_is_list |-> TRUE, remove_first |-> <<>>, stub_none |-> TRUE,
     virtargs |-> ParserSecurity_virtargs]

ParserFilesystem ==
    [cli_arg_name |-> "filesystem", guest_propname |-> "devices.filesystem",
     prop_is_list |-> TRUE, remove_first |-> <<s_source, s_target>>,
     stub_none |-> TRUE, virtargs |-> ParserFilesystem_virtargs]

ParserCPU ==
    [cli_arg_name |-> "cpu", guest_propname |-> "cpu",
     prop_is_list |-> FALSE, remove_first |-> <<s_model>>,
     stub_none |-> FALSE, virtargs |-> ParserCPU_virtargs]

ParserUnattended ==
    [cli_arg_name |-> "unattended", guest_propname |-> "",
     prop_is_list |-> FALSE, remove_first |-> <<>>, stub_none |-> TRUE,
     virtargs |-> ParserUnattended_virtargs]

ParserInput ==
    [cli_arg_name |-> "input", guest_propname |-> "devices.input",
     prop_is_list |-> TRUE, remove_first |-> <<s_type>>, stub_none |-> TRUE,
     virtargs |-> ParserInput_virtargs]

ParserNetwork ==
    [cli_arg_name |-> "network", guest_propname |-> "devices.interface",
     prop_is_list |-> TRUE, remove_first |-> <<s_type>>, stub_none |-> FALSE,
     virtargs |-> ParserNetwork_virtargs]

Classes == {"security", "filesystem", "cpu", "unattended", "input"}

VARIABLES
    cls_virtargs, \* cls._virtargs of the class "newclass" while its body runs
    listing     \* the names print_introspection has printed, in order

\* a parser class under definition: its _init_class is still calling
\* add_arg, the other class attributes are the defaults of VirtCLIParser
ParserNewClass ==
    [cli_arg_name |-> "newclass", guest_propname |-> "",
     prop_is_list |-> FALSE, remove_first |-> <<>>, stub_none |-> TRUE,
     virtargs |-> cls_virtargs]

\* ParserSerial and ParserParallel: remove_first and stub_none are those
\* of _ParserChar, _virtargs is the list of _ParserChar
ParserSerial ==
    [cli_arg_name |-> "serial", guest_propname |-> "devices.serial",
     prop_is_list |-> TRUE, remove_first |-> <<s_char_type>>,
     stub_none |-> FALSE, virtargs |-> cls_virtargs]

ParserParallel ==
    [cli_arg_name |-> "parallel", guest_propname |-> "devices.parallel",
     prop_is_list |-> TRUE, remove_first |-> <<s_char_type>>,
     stub_none |-> FALSE, virtargs |-> cls_virtargs]

Parser(cls) ==
    CASE cls = "newclass" -> ParserNewClass
      [] cls = "security" -> ParserSecurity
      [] cls = "filesystem" -> ParserFilesystem
      [] cls = "cpu" -> ParserCPU
      [] cls = "unattended" -> ParserUnattended
      [] cls = "input" -> ParserInput
      [] cls = "network" -> ParserNetwork
      [] cls = "serial" -> ParserSerial
      [] cls = "parallel" -> ParserParallel

\* _parse_optstr_to_dict(optstr, virtargs, remove_first):
\* [err, rawtuples, opttuples, optdict]
parse_optstr_to_dict(optstr, virtargs, remove_first) ==
    LET t == parse_optstr_tuples(optstr)
        spliced == splice_remove_first(t.tuples, 1, remove_first)
        d == scan_opttuples(virtargs, spliced, <<>>)
    IN IF t.err # ""
       THEN [err |-> t.err, rawtuples |-> <<>>, opttuples |-> <<>>,
             optdict |-> <<>>]
       ELSE [err |-> d.err, rawtuples |-> t.tuples, opttuples |-> spliced,
             optdict |-> d.optdict]

-----------------------------------------------------------------------------
(* _raw_on_off_convert / _on_off_convert *)

UpperChars == <<"A", "B", "C", "D", "E", "F", "G", "H", "I", "J", "K", "L", "M", "N", "O", "P", "Q", "R", "S", "T", "U", "V", "W", "X", "Y", "Z">>

LowerChars == <<"a", "b", "c", "d", "e", "f", "g", "h", "i", "j", "k", "l", "m", "n", "o", "p", "q", "r", "s", "t", "u", "v", "w", "x", "y", "z">>

\* str.lower()
lower(s) ==
    [i \in DOMAIN s |->
        IF \E n \in DOMAIN UpperChars : UpperChars[n] = s[i]
        THEN LowerChars[CHOOSE n \in DOMAIN UpperChars : UpperChars[n] = s[i]]
        ELSE s[i]]

tvalues == {<<"y">>, <<"y", "e", "s">>, <<"1">>, <<"t", "r", "u", "e">>, <<"t">>, <<"o", "n">>}

fvalues == {<<"n">>, <<"n", "o">>, <<"0">>, <<"f", "a", "l", "s", "e">>, <<"f">>, <<"o", "f", "f">>}

\* a _raw_on_off_convert that would compare s without s.lower()
raw_on_off_convert_cased(s) ==
    LET l == IF Truthy(s) THEN s ELSE <<>>
    IN IF l \in tvalues THEN True
       ELSE IF l \in fvalues THEN False
       ELSE None

\* _raw_on_off_convert(s)
raw_on_off_convert(s) ==
    LET l == lower(IF Truthy(s) THEN s ELSE <<>>)
    IN IF l \in tvalues THEN True
       ELSE IF l \in fvalues THEN False
       ELSE None

\* _on_off_convert(key, val): [err, val]; err is the fail() that ends it
on_off_convert(key, val) ==
    IF val = None THEN [err |-> "", val |-> None]
    ELSE IF raw_on_off_convert(val) # None
         THEN [err |-> "", val |-> raw_on_off_convert(val)]
    ELSE [err |-> "must be 'yes' or 'no'", val |-> None]

-----------------------------------------------------------------------------
(* _VirtCLIArgument *)

\* _VirtCLIArgument.__init__(virtarg, key, val): [err, key, val, virtarg];
\* virtarg is the position of the descriptor in the registry
VirtCLIArgument(virtargs, k, key, val) ==
    LET v1 == IF val = <<>> THEN None ELSE val
        c == IF virtargs[k].is_onoff THEN on_off_convert(key, v1)
             ELSE [err |-> "", val |-> v1]
    IN IF val = None
       THEN [err |-> "had no value set", key |-> key, val |-> None,
             virtarg |-> k]
       ELSE [err |-> c.err, key |-> key, val |-> c.val, virtarg |-> k]

RECURSIVE optdict_keys_loop(_, _, _, _, _)
\* the inner loop of _optdict_to_param_list for descriptor k over the key
\* snapshot `keys`: [err, ret, optdict]
optdict_keys_loop(virtargs, k, keys, optdict, ret) ==
    IF keys = <<>> THEN [err |-> "", ret |-> ret, optdict |-> optdict]
    ELSE IF ~match_name(virtargs[k], Head(keys))
         THEN optdict_keys_loop(virtargs, k, Tail(keys), optdict, ret)
    ELSE LET a == VirtCLIArgument(virtargs, k, Head(keys),
                                  dict_get(optdict, Head(keys)))
         IN IF a.err # ""
            THEN [err |-> a.err, ret |-> ret, optdict |-> optdict]
            ELSE optdict_keys_loop(virtargs, k, Tail(keys),
                                   dict_pop(optdict, Head(keys)),
                                   Append(ret, a))

RECURSIVE params_in_mapping_order(_, _, _, _)
\* a _optdict_to_param_list that would go through the keys of the mapping
\* in their order, k the position in the mapping
params_in_mapping_order(virtargs, k, optdict, ret) ==
    IF k > Len(optdict)
    THEN [err |-> "", ret |-> ret,
          optdict |-> SelectSeq(optdict, LAMBDA e : lookup_virtarg(virtargs, e[1]) = 0)]
    ELSE IF lookup_virtarg(virtargs, optdict[k][1]) = 0
         THEN params_in_mapping_order(virtargs, k + 1, optdict, ret)
    ELSE LET a == VirtCLIArgument(virtargs, lookup_virtarg(virtargs, optdict[k][1]),
                                  optdict[k][1], optdict[k][2])
         IN IF a.err # "" THEN [err |-> a.err, ret |-> ret, optdict |-> optdict]
            ELSE params_in_mapping_order(virtargs, k + 1, optdict, Append(ret, a))

RECURSIVE optdict_to_param_list(_, _, _, _)
\* _optdict_to_param_list: [err, ret, optdict], optdict what is left over
optdict_to_param_list(virtargs, k, optdict, ret) ==
    IF k > Len(virtargs) THEN [err |-> "", ret |-> ret, optdict |-> optdict]
    ELSE LET r == optdict_keys_loop(virtargs, k, dict_keys(optdict), optdict,
                                    ret)
         IN IF r.err # "" THEN r
            ELSE optdict_to_param_list(virtargs, k + 1, r.optdict, r.ret)

-----------------------------------------------------------------------------
(* Target objects.  An object is [props, list]: props maps the attribute   *)
(* names the object has to their values, list is its one repeating child   *)
(* list (cpu.cells, cell.siblings), a sequence of objects.                 *)

ClassProps(cls) ==
    CASE cls = "security" -> {"type", "model", "relabel", "label", "baselabel"}
      [] cls = "filesystem" -> {"address.type", "type", "accessmode", "source", "target"}
      [] cls = "cpu" -> {"model", "secure"}
      [] cls = "unattended" -> {"profile", "admin_password"}
      [] cls = "cell" -> {"id", "cpus"}
      [] cls = "sibling" -> {"id", "value"}
      [] cls = "input" -> {"address.type", "type", "bus"}
      [] cls = "network" -> {"address.type", "type", "source", "model"}
      [] cls \in {"serial", "parallel"} ->
            {"type", "source_path", "protocol", "target_type", "target_name",
             "source_mode", "source_master", "source_slave", "log_file",
             "log_append"}

\* a freshly created object: inst.new(), list.add_new()
NewObj(cls) == [props |-> [a \in ClassProps(cls) |-> None], list |-> <<>>]

\* a loop that would add one entry more than num + 1
grow_list_one_more(list, num) ==
    IF Len(list) >= num + 1 THEN list
    ELSE list \o [j \in 1..(num + 2 - Len(list)) |-> NewObj("cell")]

RECURSIVE grow_list(_, _)
\* while len(list) < num + 1: list.add_new()
grow_list(list, num) ==
    IF Len(list) >= num + 1 THEN list
    ELSE grow_list(Append(list, NewObj("cell")), num)

\* the cb of _make_find_inst_cb("cell", "cells"): [found, num, inst];
\* inst is the object with its list grown when can_edit
find_inst_cb(inst, key, can_edit) ==
    LET reg == re_search_num(s_cell, key, 1)
        num == IF reg >= 0 THEN reg ELSE 0
        grown == IF can_edit THEN [inst EXCEPT !.list = grow_list(@, num)]
                 ELSE inst
    IN [found |-> num + 1 <= Len(grown.list), num |-> num, inst |-> grown]

RECURSIVE grow_siblings(_, _)
\* while len(cell.siblings) < num + 1: cell.siblings.add_new()
grow_siblings(list, num) ==
    IF Len(list) >= num + 1 THEN list
    ELSE grow_siblings(Append(list, NewObj("sibling")), num)

\* the index that the name carries for the sibling: num of the cb
sibling_num(key) ==
    LET reg == re_search_num(s_sibling, key, 1)
    IN IF reg >= 0 THEN reg ELSE 0

\* return getattr(cell, "siblings")[num] in the cell that c found
sibling_found(c, num, siblings) ==
    [err |-> "", found |-> num + 1 <= Len(siblings),
     path |-> <<c.num + 1, num + 1>>,
     inst |-> [c.inst EXCEPT !.list[c.num + 1].list = siblings]]

\* the cb of _make_find_inst_cb("sibling", "siblings") on what the cell
\* cb returned: None when the cell is missing and can_edit is false, and
\* getattr(None, "siblings") raises AttributeError
sibling_in_cell(c, num, can_edit) ==
    IF ~c.found
    THEN [err |-> "AttributeError", found |-> FALSE,
          path |-> <<c.num + 1, num + 1>>, inst |-> c.inst]
    ELSE IF can_edit
    THEN sibling_found(c, num, grow_siblings(c.inst.list[c.num + 1].list, num))
    ELSE sibling_found(c, num, c.inst.list[c.num + 1].list)

\* ParserCPU.sibling_find_inst_cb: [err, found, path, inst]
sibling_find_inst_cb(inst, key, can_edit) ==
    sibling_in_cell(find_inst_cb(inst, key, can_edit), sibling_num(key), can_edit)

\* what cell_find_inst_cb found, with the path to it
cell_found(f) ==
    [err |-> "", found |-> f.found, path |-> <<f.num + 1>>, inst |-> f.inst]

\* self._virtarg.find_inst_cb(parser, inst, self.val, self, can_edit):
\* [err, found, path, inst], path the indices from inst to the object
call_find_inst_cb(cb, inst, key, can_edit) ==
    IF cb = "sibling_find_inst_cb" THEN sibling_find_inst_cb(inst, key, can_edit)
    ELSE cell_found(find_inst_cb(inst, key, can_edit))

\* the object that path leads to from inst
obj_at(inst, path) ==
    IF Len(path) = 1 THEN inst.list[path[1]]
    ELSE inst.list[path[1]].list[path[2]]

\* inst with the object that path leads to replaced by o
put_at(inst, path, o) ==
    IF Len(path) = 1 THEN [inst EXCEPT !.list[path[1]] = o]
    ELSE [inst EXCEPT !.list[path[1]].list[path[2]] = o]

\* util.set_prop_path(inst, propname, val)
set_prop(obj, propname, val) == [obj EXCEPT !.props[propname] = val]

\* inst.SPECIAL_MODE_HOST_MODEL, inst.SPECIAL_MODE_CLEAR
SPECIAL_MODE_HOST_MODEL == <<"<host-model>">>
SPECIAL_MODE_CLEAR == <<"<clear>">>

\* VirtCLIParser._clearxml_cb: [err, inst]; inst.clear() empties the object
clearxml_cb(Pc, inst, val) ==
    IF Pc.guest_propname = ""
    THEN [err |-> "Don't know how to clearxml", inst |-> inst]
    ELSE IF val # True THEN [err |-> "", inst |-> inst]
    ELSE [err |-> "",
          inst |-> [props |-> [a \in DOMAIN inst.props |-> None],
                    list |-> <<>>]]

\* ParserCPU.set_model_cb: [err, inst]; set_special_mode and set_model
\* leave the mode or model they are given in inst.model
set_model_cb(inst, val) ==
    LET v == IF val = <<"h", "o", "s", "t">> THEN SPECIAL_MODE_HOST_MODEL
             ELSE IF val = s_none THEN SPECIAL_MODE_CLEAR
             ELSE val
    IN [err |-> "", inst |-> set_prop(inst, "model", v)]

\* what inst.set_default_source() leaves in inst.type
DEFAULT_SOURCE == <<"<default-source>">>

\* ParserNetwork.set_type_cb: [err, inst]
set_type_cb(inst, val) ==
    IF val = s_default
    THEN [err |-> "", inst |-> set_prop(inst, "type", DEFAULT_SOURCE)]
    ELSE [err |-> "", inst |-> set_prop(inst, "type", val)]

\* self._virtarg.cb(parser, inst, self.val, self)
call_cb(cb, Pc, inst, val) ==
    IF cb = "_clearxml_cb" THEN clearxml_cb(Pc, inst, val)
    ELSE IF cb = "set_type_cb" THEN set_type_cb(inst, val)
    ELSE set_model_cb(inst, val)

\* DeviceInterface.TYPE_VIRTUAL, DeviceInterface.TYPE_BRIDGE
TYPE_VIRTUAL == <<"<TYPE_VIRTUAL>">>
TYPE_BRIDGE == s_bridge

\* a ParserNetwork._parse that leaves the shortcut key in the mapping
class_parse_keep_shortcut(c, optstr, optdict) ==
    IF c # "network" THEN [skip |-> FALSE, optdict |-> optdict]
    ELSE IF optstr = s_none THEN [skip |-> TRUE, optdict |-> optdict]
    ELSE IF dict_has(optdict, s_type) THEN [skip |-> FALSE, optdict |-> optdict]
    ELSE IF dict_has(optdict, s_network)
         THEN [skip |-> FALSE,
               optdict |-> dict_set(dict_set(optdict, s_type, TYPE_VIRTUAL),
                                    s_source, dict_get(optdict, s_network))]
    ELSE IF dict_has(optdict, s_bridge)
         THEN [skip |-> FALSE,
               optdict |-> dict_set(dict_set(optdict, s_type, TYPE_BRIDGE),
                                    s_source, dict_get(optdict, s_bridge))]
    ELSE [skip |-> FALSE, optdict |-> optdict]

\* the _parse of the class up to its super()._parse(inst): skip when it
\* returns without calling it, and self.optdict as it leaves it.  Only
\* ParserNetwork._parse does something to the option strings of the model:
\* no option string of the model has one of the feature options that
\* ParserCPU._parse collects or a key that starts with "+" or "-".
class_parse(c, optstr, optdict) ==
    IF c # "network" THEN [skip |-> FALSE, optdict |-> optdict]
    ELSE IF optstr = s_none THEN [skip |-> TRUE, optdict |-> optdict]
    ELSE IF dict_has(optdict, s_type) THEN [skip |-> FALSE, optdict |-> optdict]
    ELSE IF dict_has(optdict, s_network)
         THEN [skip |-> FALSE,
               optdict |-> dict_set(dict_pop(dict_set(optdict, s_type, TYPE_VIRTUAL),
                                             s_network),
                                    s_source, dict_get(optdict, s_network))]
    ELSE IF dict_has(optdict, s_bridge)
         THEN [skip |-> FALSE,
               optdict |-> dict_set(dict_pop(dict_set(optdict, s_type, TYPE_BRIDGE),
                                             s_bridge),
                                    s_source, dict_get(optdict, s_bridge))]
    ELSE [skip |-> FALSE, optdict |-> optdict]

\* a parse_param without the get_prop_path test
parse_param_unchecked(Pc, param, inst) ==
    LET d == Pc.virtargs[param.virtarg]
        f == call_find_inst_cb(d.find_inst_cb, inst, param.key, TRUE)
        target == IF d.find_inst_cb # "" THEN obj_at(f.inst, f.path) ELSE inst
        applied == IF d.cb # "" THEN call_cb(d.cb, Pc, target, param.val)
                   ELSE [err |-> "", inst |-> set_prop(target, d.propname, param.val)]
        put(o) == IF d.find_inst_cb # ""
                  THEN put_at(f.inst, f.path, o)
                  ELSE o
    IN IF param.val = s_default /\ d.ignore_default
       THEN [err |-> "", inst |-> inst]
       ELSE [err |-> applied.err, inst |-> put(applied.inst)]

\* _VirtCLIArgument.parse_param(parser, inst): [err, inst]
parse_param(Pc, param, inst) ==
    LET d == Pc.virtargs[param.virtarg]
        f == call_find_inst_cb(d.find_inst_cb, inst, param.key, TRUE)
        target == IF d.find_inst_cb # "" THEN obj_at(f.inst, f.path) ELSE inst
        applied == IF d.cb # "" THEN call_cb(d.cb, Pc, target, param.val)
                   ELSE [err |-> "", inst |-> set_prop(target, d.propname, param.val)]
        put(o) == IF d.find_inst_cb # ""
                  THEN put_at(f.inst, f.path, o)
                  ELSE o
    IN IF param.val = s_default /\ d.ignore_default
       THEN [err |-> "", inst |-> inst]
       ELSE IF d.propname # "" /\ d.propname \notin DOMAIN target.props
       THEN [err |-> "programming error",
             inst |-> IF d.find_inst_cb # "" THEN f.inst ELSE inst]
       ELSE [err |-> applied.err, inst |-> put(applied.inst)]

\* a lookup_param without its first check
lookup_param_unchecked(Pc, param, inst) ==
    LET d == Pc.virtargs[param.virtarg]
        f == call_find_inst_cb(d.find_inst_cb, inst, param.key, FALSE)
        target == IF d.find_inst_cb # "" THEN obj_at(f.inst, f.path) ELSE inst
    IN IF d.find_inst_cb # "" /\ f.err # ""
       THEN [err |-> f.err, ret |-> FALSE]
       ELSE IF d.find_inst_cb # "" /\ ~f.found
       THEN [err |-> "", ret |-> FALSE]
       ELSE IF d.propname \notin DOMAIN target.props
       THEN [err |-> "AttributeError", ret |-> FALSE]
       ELSE [err |-> "", ret |-> target.props[d.propname] = param.val]

\* _VirtCLIArgument.lookup_param(parser, inst): [err, ret]
lookup_param(Pc, param, inst) ==
    LET d == Pc.virtargs[param.virtarg]
        f == call_find_inst_cb(d.find_inst_cb, inst, param.key, FALSE)
        target == IF d.find_inst_cb # "" THEN obj_at(f.inst, f.path) ELSE inst
    IN IF d.propname = "" /\ d.lookup_cb = ""
       THEN [err |-> "Don't know how to match", ret |-> FALSE]
       ELSE IF d.find_inst_cb # "" /\ f.err # ""
       THEN [err |-> f.err, ret |-> FALSE]
       ELSE IF d.find_inst_cb # "" /\ ~f.found
       THEN [err |-> "", ret |-> FALSE]
       ELSE IF d.propname \notin DOMAIN target.props
       THEN [err |-> "AttributeError", ret |-> FALSE]
       ELSE [err |-> "", ret |-> target.props[d.propname] = param.val]

\* a loop in which only the last param would decide
lookup_params_last(Pc, ps, i, inst) ==
    IF ps = <<>> THEN [err |-> "", valid |-> TRUE]
    ELSE LET r == lookup_param(Pc, ps[Len(ps)], inst)
         IN [err |-> r.err, valid |-> r.err = "" /\ r.ret]

RECURSIVE lookup_params(_, _, _, _)
\* the loop over the params of one candidate: [err, valid]
lookup_params(Pc, ps, i, inst) ==
    IF i > Len(ps) THEN [err |-> "", valid |-> TRUE]
    ELSE LET r == lookup_param(Pc, ps[i], inst)
         IN IF r.err # "" THEN [err |-> r.err, valid |-> FALSE]
            ELSE IF ~r.ret THEN [err |-> "", valid |-> FALSE]
            ELSE lookup_params(Pc, ps, i + 1, inst)

-----------------------------------------------------------------------------
(* Inputs: option strings are up to MaxTokens fragments joined by commas,  *)
(* guests hold up to MaxObjs objects of the parser's class.                *)

MaxTokens == 2
MaxBuildTokens == 3
MaxObjs == 2
MaxCells == 1

eq == <<"=">>
va == <<"a">>
vb == <<"b">>

Fragments(cls) ==
    CASE cls = "security" ->
            { s_model \o eq \o va,
              s_relabel \o eq \o <<"Y", "e", "s">>,
              s_relabel \o eq \o <<"m", "a", "y", "b", "e">>,
              s_relabel \o eq,
              s_label \o eq \o va,
              vb \o eq,
              <<"x">> \o eq \o vb,
              s_none }
      [] cls = "filesystem" ->
            { va,
              vb,
              s_type \o eq \o va,
              s_accessmode \o eq \o va,
              s_mode \o eq \o vb,
              s_accessmode \o eq,
              <<"\"">> \o va }
      [] cls = "cpu" ->
            { s_cell \o <<"2", ".", "i", "d">> \o eq \o va,
              s_cell \o <<"0", ".", "i", "d">> \o eq \o va,
              s_cell \o <<".", "c", "p", "u", "s">> \o eq \o <<"1">>,
              s_secure \o eq \o <<"o", "f", "f">>,
              s_model,
              s_none,
              <<"x">> \o eq \o vb }
      [] cls = "unattended" ->
            { s_profile \o eq \o va,
              s_profile,
              clearxml \o eq \o <<"y", "e", "s">>,
              clearxml \o eq \o <<"n", "o">>,
              <<"x">> \o eq \o vb }
      [] cls = "input" ->
            { s_default,
              s_type \o eq \o s_default,
              s_bus \o eq \o va }

RECURSIVE Join(_)
\* the fragments of fs with "," between them
Join(fs) ==
    IF fs = <<>> THEN <<>>
    ELSE IF Len(fs) = 1 THEN fs[1]
    ELSE fs[1] \o <<",">> \o Join(Tail(fs))

\* the option strings of at most n fragments
OptStrs(c, n) ==
    { Join(fs) : fs \in UNION { [1..m -> Fragments(c)] : m \in 0..n } }

\* values given to a boolean option: the accepted words, with one letter
\* in upper case, with a letter appended, with the last letter dropped
OnOffWords ==
    LET words == tvalues \cup fvalues
        up(w, i) == [w EXCEPT ![i] = IF \E n \in DOMAIN LowerChars : LowerChars[n] = w[i]
                                     THEN UpperChars[CHOOSE n \in DOMAIN LowerChars : LowerChars[n] = w[i]]
                                     ELSE w[i]]
    IN words
       \cup { up(w, i) : <<w, i>> \in { <<w, i>> \in words \X (1..5) : i <= Len(w) } }
       \cup { w \o <<c>> : <<w, c>> \in words \X {"s", "0"} }
       \cup { SubSeq(w, 1, Len(w) - 1) : w \in words }

\* the option strings of at most n of the fragments frags
OptStrsOf(frags, n) ==
    { Join(fs) : fs \in UNION { [1..m -> frags] : m \in 0..n } }

\* --security options given in an order that is not the registered one
OrderFragments ==
    { s_label \o eq \o vb,
      s_relabel \o eq \o <<"n", "o">>,
      s_model \o eq \o va,
      clearxml \o eq \o <<"y", "e", "s">> }

\* cells a cpu may start with
InitCells ==
    UNION { [1..n -> { NewObj("cell"), set_prop(NewObj("cell"), "id", va) }] : n \in 0..MaxCells }

\* objects a guest may hold before the parser runs
InitObjs(cls) ==
    CASE cls = "security" ->
            { NewObj(cls),
              set_prop(set_prop(NewObj(cls), "model", va), "relabel", True) }
      [] cls = "filesystem" ->
            { NewObj(cls), set_prop(NewObj(cls), "accessmode", vb) }
      [] cls = "cpu" ->
            { [NewObj(cls) EXCEPT !.list = c] : c \in InitCells }
      [] cls = "unattended" -> { NewObj(cls) }
      [] cls = "input" ->
            { NewObj(cls),
              set_prop(set_prop(NewObj(cls), "type", vb), "bus", va) }
      [] cls = "network" ->
            { NewObj(cls), set_prop(NewObj(cls), "source", vb) }
      [] cls \in {"serial", "parallel"} ->
            { NewObj(cls), set_prop(NewObj(cls), "source_mode", vb) }

\* what the guest holds at guest_propname as a sequence; a class without
\* guest_propname is given its one target object by the caller
InitGuests(cls) ==
    IF Parser(cls).prop_is_list
    THEN UNION { [1..n -> InitObjs(cls)] : n \in 0..MaxObjs }
    ELSE [1..1 -> InitObjs(cls)]

-----------------------------------------------------------------------------
VARIABLES
    VIRT_PARSERS, \* the module's list of registered parser classes
    pos,        \* the run of parse_option_strings: arguments and locals
    created,    \* the classes of the _ParserChar family created so far
    cls,        \* the parser class
    optstr,     \* self.optstr
    guest,      \* the objects of self.guest at guest_propname
    guest0,     \* guest as it was when the parser was constructed
    pc,         \* position of the parser instance
    mode,       \* "parse" or "lookup", the entry point called
    rawtuples,  \* parse_optstr_tuples(optstr)
    opttuples,  \* the tuples after the remove_first splice
    optdict,    \* self.optdict
    inst,       \* parse(): index in guest of inst, 0 for a new object
    newobj,     \* parse(): the new object until it is attached
    new_object, \* parse(): new_object
    validate,   \* parse(): validate
    params,     \* the list of _optdict_to_param_list
    pidx,       \* position in params
    leftover,   \* the local optdict copy after the descriptors claimed keys
    cidx,       \* lookup: position in objlist
    ret,        \* the returned value: None or indices of objects in guest
    err         \* the failure that reached the caller

vars == <<VIRT_PARSERS, pos, created, cls_virtargs, listing, cls, optstr, guest, guest0, pc, mode, rawtuples, opttuples, optdict, inst, newobj, new_object, validate, params, pidx, leftover, cidx, ret, err>>

NoErr == [kind |-> "", has_flag |-> FALSE, has_optstr |-> FALSE, keys |-> <<>>]

\* an exception that leaves the constructor, or a fail() of the layers
\* below parse(): the message has neither the flag nor the option string
BareErr(kind) == [kind |-> kind, has_flag |-> FALSE, has_optstr |-> FALSE, keys |-> <<>>]

\* `except Exception as e: fail("Error: %(cli_flag_name)s %(options)s: %(err)s")`
WrappedErr(kind) == [kind |-> kind, has_flag |-> TRUE, has_optstr |-> TRUE, keys |-> <<>>]

\* a _check_leftover_opts that would report only the first leftover key
UnknownErr_first_key(d) == [kind |-> "Unknown options", has_flag |-> TRUE, has_optstr |-> FALSE, keys |-> <<dict_keys(d)[1]>>]

\* _check_leftover_opts: fail("Unknown %s options: %s")
UnknownErr(d) == [kind |-> "Unknown options", has_flag |-> TRUE, has_optstr |-> FALSE, keys |-> dict_keys(d)]

\* how an error of _optdict_to_param_list reaches the caller: the
\* RuntimeError of a missing value is caught and wrapped, _on_off_convert
\* has called fail() itself
ParamListErr(e) ==
    IF e = "had no value set" THEN WrappedErr(e) ELSE BareErr(e)

P == Parser(cls)

\* util.listify(self.lookup_prop(self.guest))
objlist == IF P.guest_propname = "" THEN <<>> ELSE guest

\* parse_option_strings is not running
NoPos ==
    [running |-> FALSE, at |-> "", options |-> <<>>, guests |-> <<>>,
     instlist |-> <<>>, update |-> FALSE, optlist |-> <<>>,
     p |-> 0, i |-> 0, o |-> 0, ret |-> <<>>, calls |-> <<>>]

\* the module as imported: no class has been registered, no class of the
\* _ParserChar family exists, parse_option_strings is not running
Imported ==
    /\ VIRT_PARSERS = <<>>
    /\ pos = NoPos
    /\ created = <<>>

\* no parser instance has been constructed
NoInstance ==
    /\ guest0 = guest
    /\ mode = ""
    /\ rawtuples = <<>>
    /\ opttuples = <<>>
    /\ optdict = <<>>
    /\ inst = 0
    /\ newobj = None
    /\ new_object = FALSE
    /\ validate = FALSE
    /\ params = <<>>
    /\ pidx = 0
    /\ leftover = <<>>
    /\ cidx = 0
    /\ ret = None
    /\ err = NoErr

\* the state of a parser instance before its constructor has run; the
\* class is one of Classes, nothing has been printed
Fresh ==
    /\ Imported
    /\ cls_virtargs = <<>>
    /\ listing = <<>>
    /\ pc = "new"
    /\ NoInstance

Init ==
    /\ cls \in Classes
    /\ optstr \in OptStrs(cls, MaxTokens)
    /\ guest \in InitGuests(cls)
    /\ Fresh

\* VirtCLIParser.__init__
ParserInit ==
    /\ pc = "new"
    /\ LET r == parse_optstr_to_dict(optstr, P.virtargs, P.remove_first)
       IN /\ rawtuples' = r.rawtuples
          /\ opttuples' = r.opttuples
          /\ optdict' = r.optdict
          /\ pc' = IF r.err # "" THEN "failed" ELSE "constructed"
          /\ err' = IF r.err # "" THEN BareErr(r.err) ELSE NoErr
    /\ UNCHANGED <<VIRT_PARSERS, pos, created, cls_virtargs, listing, cls, optstr, guest, guest0, mode, inst, newobj, new_object, validate, params, pidx, leftover, cidx, ret>>

\* a parse() without the stub_none check
parse_returns_none_no_stub(Pc, s) == s = <<>>

\* parse(): `if not self.optstr` and `if self.stub_none and ... == "none"`
parse_returns_none(Pc, s) == s = <<>> \/ (Pc.stub_none /\ s = s_none)

\* VirtCLIParser.parse(inst, validate) up to the call of _parse;
\* inst_arg 0 is inst=None
ParseEntry(inst_arg, val) ==
    /\ pc = "constructed"
    /\ inst_arg \in 0..Len(guest)
    /\ P.guest_propname = "" => inst_arg # 0
    /\ mode' = "parse"
    /\ validate' = val
    /\ IF parse_returns_none(P, optstr)
       THEN /\ pc' = "done"
            /\ ret' = None
            /\ UNCHANGED <<inst, newobj, new_object>>
       ELSE /\ pc' = "claim"
            /\ new_object' = (P.guest_propname # "" /\ inst_arg = 0 /\ P.prop_is_list)
            /\ inst' = IF inst_arg # 0 THEN inst_arg
                       ELSE IF P.prop_is_list THEN 0 ELSE 1
            /\ newobj' = IF new_object' THEN NewObj(cls) ELSE None
            /\ UNCHANGED ret
    /\ UNCHANGED <<VIRT_PARSERS, pos, created, cls_virtargs, listing, cls, optstr, guest, guest0, rawtuples, opttuples, optdict, params, pidx, leftover, cidx, err>>

\* a _parse that hands self.optdict itself to _optdict_to_param_list
OptdictToParamList_no_copy ==
    /\ pc = "claim"
    /\ LET pre == class_parse(cls, optstr, optdict)
           r == optdict_to_param_list(P.virtargs, 1, pre.optdict, <<>>)
       IN IF pre.skip
          THEN /\ pc' = "done"
               /\ ret' = <<>>
               /\ UNCHANGED <<optdict, params, pidx, leftover, err>>
          ELSE IF r.err # ""
          THEN /\ pc' = "failed"
               /\ err' = ParamListErr(r.err)
               /\ optdict' = pre.optdict
               /\ UNCHANGED <<params, pidx, leftover, ret>>
          ELSE /\ pc' = "bind"
               /\ params' = r.ret
               /\ leftover' = r.optdict
               /\ optdict' = r.optdict
               /\ pidx' = 1
               /\ UNCHANGED <<err, ret>>
    /\ UNCHANGED <<VIRT_PARSERS, pos, created, cls_virtargs, listing, cls, optstr, guest, guest0, mode, rawtuples, opttuples, inst, newobj, new_object, validate, cidx>>

\* self._parse(inst) up to the param list: the _parse of the class, then
\* optdict = self.optdict.copy(); self._optdict_to_param_list(optdict)
OptdictToParamList ==
    /\ pc = "claim"
    /\ LET pre == class_parse(cls, optstr, optdict)
           r == optdict_to_param_list(P.virtargs, 1, pre.optdict, <<>>)
       IN IF pre.skip
          THEN /\ pc' = "done"
               /\ ret' = <<>>
               /\ UNCHANGED <<optdict, params, pidx, leftover, err>>
          ELSE IF r.err # ""
          THEN /\ pc' = "failed"
               /\ err' = ParamListErr(r.err)
               /\ optdict' = pre.optdict
               /\ UNCHANGED <<params, pidx, leftover, ret>>
          ELSE /\ pc' = "bind"
               /\ params' = r.ret
               /\ leftover' = r.optdict
               /\ optdict' = pre.optdict
               /\ pidx' = 1
               /\ UNCHANGED <<err, ret>>
    /\ UNCHANGED <<VIRT_PARSERS, pos, created, cls_virtargs, listing, cls, optstr, guest, guest0, mode, rawtuples, opttuples, inst, newobj, new_object, validate, cidx>>

\* the object parse() works on
cur_inst == IF inst = 0 THEN newobj ELSE guest[inst]

\* _parse: param.parse_param(self, inst) for the next param
ParseParam ==
    /\ pc = "bind"
    /\ pidx <= Len(params)
    /\ LET r == parse_param(P, params[pidx], cur_inst)
       IN /\ IF inst = 0
             THEN newobj' = r.inst /\ UNCHANGED guest
             ELSE guest' = [guest EXCEPT ![inst] = r.inst] /\ UNCHANGED newobj
          /\ IF r.err # ""
             THEN pc' = "failed" /\ err' = WrappedErr(r.err) /\ UNCHANGED pidx
             ELSE pidx' = pidx + 1 /\ UNCHANGED <<pc, err>>
    /\ UNCHANGED <<VIRT_PARSERS, pos, created, cls_virtargs, listing, cls, optstr, guest0, mode, rawtuples, opttuples, optdict, inst, new_object, validate, params, leftover, cidx, ret>>

\* a _parse that would check the leftover options before the params are bound
CheckLeftover_early ==
    /\ pc = "bind"
    /\ IF leftover # <<>>
       THEN pc' = "failed" /\ err' = UnknownErr(leftover)
       ELSE pc' = "attach" /\ UNCHANGED err
    /\ UNCHANGED <<VIRT_PARSERS, pos, created, cls_virtargs, listing, cls, optstr, guest, guest0, mode, rawtuples, opttuples, optdict, inst, newobj, new_object, validate, params, pidx, leftover, cidx, ret>>

\* _parse: self._check_leftover_opts(optdict)
CheckLeftover ==
    /\ pc = "bind"
    /\ pidx > Len(params)
    /\ IF leftover # <<>>
       THEN pc' = "failed" /\ err' = UnknownErr(leftover)
       ELSE pc' = "attach" /\ UNCHANGED err
    /\ UNCHANGED <<VIRT_PARSERS, pos, created, cls_virtargs, listing, cls, optstr, guest, guest0, mode, rawtuples, opttuples, optdict, inst, newobj, new_object, validate, params, pidx, leftover, cidx, ret>>

\* a parse() that adds the new object to the guest before it validates it
Attach_before_validate(valid) ==
    /\ pc = "attach"
    /\ (~new_object \/ ~validate) => valid
    /\ guest' = IF new_object THEN Append(guest, newobj) ELSE guest
    /\ IF new_object /\ validate /\ ~valid
       THEN /\ pc' = "failed"
            /\ err' = WrappedErr("validate")
            /\ UNCHANGED ret
       ELSE /\ pc' = "done"
            /\ ret' = IF new_object THEN <<Len(guest) + 1>> ELSE <<inst>>
            /\ UNCHANGED err
    /\ UNCHANGED <<VIRT_PARSERS, pos, created, cls_virtargs, listing, cls, optstr, guest0, mode, rawtuples, opttuples, optdict, inst, newobj, new_object, validate, params, pidx, leftover, cidx>>

\* parse() after _parse: validate and attach a new object, build ret;
\* valid is the outcome of obj.validate()
Attach(valid) ==
    /\ pc = "attach"
    /\ (~new_object \/ ~validate) => valid
    /\ IF new_object /\ validate /\ ~valid
       THEN /\ pc' = "failed"
            /\ err' = WrappedErr("validate")
            /\ UNCHANGED <<guest, ret>>
       ELSE /\ pc' = "done"
            /\ guest' = IF new_object THEN Append(guest, newobj) ELSE guest
            /\ ret' = IF new_object THEN <<Len(guest) + 1>> ELSE <<inst>>
            /\ UNCHANGED err
    /\ UNCHANGED <<VIRT_PARSERS, pos, created, cls_virtargs, listing, cls, optstr, guest0, mode, rawtuples, opttuples, optdict, inst, newobj, new_object, validate, params, pidx, leftover, cidx>>

\* lookup_child_from_option_string up to its loop
LookupEntry ==
    /\ pc = "constructed"
    /\ mode' = "lookup"
    /\ pc' = "lookup"
    /\ cidx' = 1
    /\ ret' = <<>>
    /\ UNCHANGED <<VIRT_PARSERS, pos, created, cls_virtargs, listing, cls, optstr, guest, guest0, rawtuples, opttuples, optdict, inst, newobj, new_object, validate, params, pidx, leftover, err>>

\* an iteration that would check the leftover options of a match only
LookupInst_check_if_valid ==
    /\ pc = "lookup"
    /\ cidx <= Len(objlist)
    /\ LET r == optdict_to_param_list(P.virtargs, 1, optdict, <<>>)
           l == lookup_params(P, r.ret, 1, objlist[cidx])
       IN IF r.err # ""
          THEN /\ pc' = "failed"
               /\ err' = ParamListErr(r.err)
               /\ UNCHANGED <<params, leftover, ret, cidx>>
          ELSE /\ params' = r.ret
               /\ leftover' = r.optdict
               /\ IF l.err # ""
                  THEN /\ pc' = "failed"
                       /\ err' = WrappedErr(l.err)
                       /\ UNCHANGED <<ret, cidx>>
                  ELSE /\ ret' = IF l.valid THEN Append(ret, cidx) ELSE ret
                       /\ IF r.optdict # <<>> /\ l.valid
                          THEN /\ pc' = "failed"
                               /\ err' = UnknownErr(r.optdict)
                               /\ UNCHANGED cidx
                          ELSE /\ cidx' = cidx + 1
                               /\ UNCHANGED <<pc, err>>
    /\ UNCHANGED <<VIRT_PARSERS, pos, created, cls_virtargs, listing, cls, optstr, guest, guest0, mode, rawtuples, opttuples, optdict, inst, newobj, new_object, validate, pidx>>

\* one iteration of `for inst in objlist`
LookupInst ==
    /\ pc = "lookup"
    /\ cidx <= Len(objlist)
    /\ LET r == optdict_to_param_list(P.virtargs, 1, optdict, <<>>)
           l == lookup_params(P, r.ret, 1, objlist[cidx])
       IN IF r.err # ""
          THEN /\ pc' = "failed"
               /\ err' = ParamListErr(r.err)
               /\ UNCHANGED <<params, leftover, ret, cidx>>
          ELSE /\ params' = r.ret
               /\ leftover' = r.optdict
               /\ IF l.err # ""
                  THEN /\ pc' = "failed"
                       /\ err' = WrappedErr(l.err)
                       /\ UNCHANGED <<ret, cidx>>
                  ELSE /\ ret' = IF l.valid THEN Append(ret, cidx) ELSE ret
                       /\ IF r.optdict # <<>>
                          THEN /\ pc' = "failed"
                               /\ err' = UnknownErr(r.optdict)
                               /\ UNCHANGED cidx
                          ELSE /\ cidx' = cidx + 1
                               /\ UNCHANGED <<pc, err>>
    /\ UNCHANGED <<VIRT_PARSERS, pos, created, cls_virtargs, listing, cls, optstr, guest, guest0, mode, rawtuples, opttuples, optdict, inst, newobj, new_object, validate, pidx>>

\* lookup_child_from_option_string: return ret
LookupReturn ==
    /\ pc = "lookup"
    /\ cidx > Len(objlist)
    /\ pc' = "done"
    /\ UNCHANGED <<VIRT_PARSERS, pos, created, cls_virtargs, listing, cls, optstr, guest, guest0, mode, rawtuples, opttuples, optdict, inst, newobj, new_object, validate, params, pidx, leftover, cidx, ret, err>>

Next ==
    \/ ParserInit
    \/ \E inst_arg \in 0..MaxObjs, val \in BOOLEAN : ParseEntry(inst_arg, val)
    \/ OptdictToParamList
    \/ ParseParam
    \/ CheckLeftover
    \/ \E valid \in BOOLEAN : Attach(valid)
    \/ LookupEntry
    \/ LookupInst
    \/ LookupReturn

Spec == Init /\ [][Next]_vars

\* The constructor alone, on longer option strings
InitBuild ==
    /\ cls \in Classes
    /\ optstr \in OptStrs(cls, MaxBuildTokens)
    /\ guest = IF Parser(cls).prop_is_list THEN <<>> ELSE <<NewObj(cls)>>
    /\ Fresh

SpecBuild == InitBuild /\ [][ParserInit]_vars

\* --security relabel=<word> for every word of OnOffWords
InitOnOff ==
    /\ cls = "security"
    /\ optstr \in { s_relabel \o eq \o w : w \in OnOffWords }
    /\ guest \in [1..1 -> InitObjs(cls)]
    /\ Fresh

SpecOnOff == InitOnOff /\ [][Next]_vars

\* --security with clearxml, model, relabel and label in every order
InitOrder ==
    /\ cls = "security"
    /\ optstr \in OptStrsOf(OrderFragments, MaxBuildTokens)
    /\ guest \in InitGuests(cls)
    /\ Fresh

SpecOrder == InitOrder /\ [][Next]_vars

\* The tokenizer on every string of up to MaxChars of the characters
\* TokChars
MaxChars == 6

TokChars == {"a", "=", ",", "\""}

InitTok ==
    /\ cls \in {"unattended", "filesystem"}
    /\ optstr \in UNION { [1..n -> TokChars] : n \in 0..MaxChars }
    /\ guest = IF Parser(cls).prop_is_list THEN <<>> ELSE <<NewObj(cls)>>
    /\ Fresh

SpecTok == InitTok /\ [][ParserInit]_vars

\* option names that are close to registered ones: another character for
\* the ".", no ".", an alias, a cut name, a cell with and without index
NameFragments(c) ==
    CASE c = "filesystem" ->
            { s_address_type \o eq \o va,
              <<"a", "d", "d", "r", "e", "s", "s", "X">> \o s_type \o eq \o va,
              <<"a", "d", "d", "r", "e", "s", "s">> \o s_type \o eq \o va,
              s_mode \o eq \o vb,
              <<"m", "o", "d">> \o eq \o vb }
      [] c = "cpu" ->
            { s_cell \o <<"0", ".", "i", "d">> \o eq \o va,
              s_cell \o <<".", "i", "d">> \o eq \o va,
              s_cell \o <<"0", "X", "i", "d">> \o eq \o va,
              s_cell \o <<"X", ".", "i", "d">> \o eq \o va,
              s_cell \o <<"1", "0", ".", "i", "d">> \o eq \o va }

InitNames ==
    /\ cls \in {"filesystem", "cpu"}
    /\ optstr \in OptStrsOf(NameFragments(cls), 1)
    /\ guest \in InitGuests(cls)
    /\ Fresh

SpecNames == InitNames /\ [][Next]_vars

\* objects of the class that lack some of the attributes its descriptors
\* name
PartialObjs(c) ==
    { [props |-> [a \in S |-> None], list |-> <<>>] : S \in SUBSET ClassProps(c) }

\* parse(inst) and lookup on an object that may lack attributes
InitPartial ==
    /\ cls \in {"cpu", "unattended"}
    /\ optstr \in OptStrs(cls, MaxTokens)
    /\ guest \in [1..1 -> PartialObjs(cls)]
    /\ Fresh

SpecPartial == InitPartial /\ [][Next]_vars

s_br0 == <<"b", "r", "0">>

\* --network options: the shortcuts bridge= and network=, type, source,
\* model, none
NetworkFragments ==
    { s_bridge \o eq \o s_br0,
      s_network \o eq \o va,
      s_type \o eq \o vb,
      s_source \o eq \o vb,
      s_model \o eq \o va,
      s_none }

InitNetwork ==
    /\ cls = "network"
    /\ optstr \in OptStrsOf(NetworkFragments, MaxTokens)
    /\ guest \in UNION { [1..n -> InitObjs(cls)] : n \in 0..1 }
    /\ Fresh

SpecNetwork == InitNetwork /\ [][Next]_vars

-----------------------------------------------------------------------------
(* --cpu with the doubly indexed option cell[0-9]*.distances.sibling[0-9]* *)
(* against a cpu whose cells have siblings.                                *)

s_cell0_sibling0_id == s_cell \o <<"0", ".">> \o s_distances \o <<".">> \o s_sibling \o <<"0", ".", "i", "d">>
s_cell0_sibling1_id == s_cell \o <<"0", ".">> \o s_distances \o <<".">> \o s_sibling \o <<"1", ".", "i", "d">>
s_cell1_sibling0_id == s_cell \o <<"1", ".">> \o s_distances \o <<".">> \o s_sibling \o <<"0", ".", "i", "d">>

SiblingFragments ==
    { s_cell0_sibling0_id \o eq \o va,
      s_cell0_sibling1_id \o eq \o va,
      s_cell1_sibling0_id \o eq \o va,
      s_cell \o <<"0", ".", "i", "d">> \o eq \o va }

\* cells with no sibling, a new sibling, or a sibling whose id is a
SiblingCells ==
    { NewObj("cell"),
      [NewObj("cell") EXCEPT !.list = <<NewObj("sibling")>>],
      [NewObj("cell") EXCEPT !.list = <<set_prop(NewObj("sibling"), "id", va)>>] }

InitSibling ==
    /\ cls = "cpu"
    /\ optstr \in OptStrsOf(SiblingFragments, MaxTokens)
    /\ guest \in { <<[NewObj("cpu") EXCEPT !.list = c]>> :
                     c \in UNION { [1..n -> SiblingCells] : n \in 0..(MaxCells + 1) } }
    /\ Fresh

SpecSibling == InitSibling /\ [][Next]_vars

\* One parser instance whose parse(None) is called a second time after the
\* first call has returned
InitAgain ==
    /\ cls \in {"security", "filesystem", "input"}
    /\ optstr \in OptStrs(cls, MaxTokens)
    /\ guest \in UNION { [1..n -> InitObjs(cls)] : n \in 0..1 }
    /\ Fresh

\* the caller keeps the parser object after its first parse() has attached
\* a new object, and calls it again
ParseAgain ==
    /\ pc = "done"
    /\ mode = "parse"
    /\ new_object
    /\ Len(guest) = Len(guest0) + 1
    /\ pc' = "constructed"
    /\ UNCHANGED <<VIRT_PARSERS, pos, created, cls_virtargs, listing, cls, optstr, guest, guest0, mode, rawtuples, opttuples, optdict, inst, newobj, new_object, validate, params, pidx, leftover, cidx, ret, err>>

NextAgain ==
    \/ ParseAgain
    \/ Next

SpecAgain == InitAgain /\ [][NextAgain]_vars

-----------------------------------------------------------------------------
(* VirtCLIParser.register on the module's VIRT_PARSERS.                    *)

\* a register that appends without looking
register_always(parsers, c) == Append(parsers, c)

\* register: `if cls not in VIRT_PARSERS: VIRT_PARSERS.append(cls)`
register(parsers, c) ==
    IF \E i \in DOMAIN parsers : parsers[i] = c THEN parsers
    ELSE Append(parsers, c)

InitRegister ==
    /\ cls \in Classes
    /\ optstr = <<>>
    /\ guest = <<>>
    /\ Fresh

\* c.register()
Register(c) ==
    /\ pc = "new"
    /\ ~pos.running
    /\ VIRT_PARSERS' = register(VIRT_PARSERS, c)
    /\ UNCHANGED <<pos, created, cls_virtargs, listing, cls, optstr, guest, guest0, pc, mode, rawtuples, opttuples, optdict, inst, newobj, new_object, validate, params, pidx, leftover, cidx, ret, err>>

NextRegister == \E c \in Classes : Register(c)

SpecRegister == InitRegister /\ [][NextRegister]_vars

-----------------------------------------------------------------------------
(* parse_option_strings(options, guest, instlist, update).  pos is its     *)
(* frame: options maps a class to the occurrences of its flag, guests to   *)
(* the objects the guest holds for it, instlist holds indices of objects   *)
(* (0 is None); p, i, o are the positions of the three loops, at the next  *)
(* statement; calls lists the parse calls made: <<class, inst, optstr>>.   *)

MaxOccur == 2

PosClasses == {"security", "input"}

PosOptStrs(c) ==
    IF c = "security" THEN { s_model \o eq \o va, s_label \o eq \o va }
    ELSE { s_type \o eq \o vb, s_bus \o eq \o va }

\* the occurrences of the flag of class c on a command line
PosOptLists(c) == UNION { [1..n -> PosOptStrs(c)] : n \in 0..MaxOccur }

\* lists of distinct objects of the guest, by index
PosInstLists ==
    { l \in UNION { [1..n -> 1..MaxObjs] : n \in 1..MaxObjs } :
        \A j, k \in DOMAIN l : j # k => l[j] # l[k] }

\* a loop body without `optlist = [optlist[-1]]`
inst_optlist_all(inst_arg, optlist) == optlist

\* if inst and optlist: optlist = [optlist[-1]]
inst_optlist(inst_arg, optlist) ==
    IF inst_arg # 0 /\ optlist # <<>> THEN <<optlist[Len(optlist)]>>
    ELSE optlist

\* no parser object exists: pc is "idle"
InitPos ==
    /\ cls = "security"
    /\ optstr = <<>>
    /\ guest = <<>>
    /\ Imported
    /\ cls_virtargs = <<>>
    /\ listing = <<>>
    /\ pc = "idle"
    /\ NoInstance

\* c.register() before parse_option_strings is called
PosRegister(c) ==
    /\ pos.at = ""
    /\ VIRT_PARSERS' = register(VIRT_PARSERS, c)
    /\ UNCHANGED <<pos, created, cls_virtargs, listing, cls, optstr, guest, guest0, pc, mode, rawtuples, opttuples, optdict, inst, newobj, new_object, validate, params, pidx, leftover, cidx, ret, err>>

\* the call: instlist = listify(instlist) or [None]; ret = [].  Objects
\* are passed with the occurrences of the flag of their own class only
PosStart(options, instlist, update) ==
    /\ pos.at = ""
    /\ VIRT_PARSERS # <<>>
    /\ instlist # <<>> =>
           \E c \in PosClasses : \A d \in PosClasses \ {c} : options[d] = <<>>
    /\ pos' = [running |-> TRUE, at |-> "class", options |-> options,
               guests |-> [c \in PosClasses |-> [j \in 1..MaxObjs |-> NewObj(c)]],
               instlist |-> IF instlist = <<>> THEN <<0>> ELSE instlist,
               update |-> update, optlist |-> <<>>,
               p |-> 0, i |-> 0, o |-> 0, ret |-> <<>>, calls |-> <<>>]
    /\ UNCHANGED <<VIRT_PARSERS, created, cls_virtargs, listing, cls, optstr, guest, guest0, pc, mode, rawtuples, opttuples, optdict, inst, newobj, new_object, validate, params, pidx, leftover, cidx, ret, err>>

\* for parserclass in VIRT_PARSERS: optlist = listify(getattr(options,
\* cli_arg_name)); if not optlist: continue.  After the loop: return ret
PosNextClass ==
    /\ pos.at = "class"
    /\ IF pos.p + 1 > Len(VIRT_PARSERS)
       THEN pos' = [pos EXCEPT !.running = FALSE, !.at = "returned"]
       ELSE LET optlist == pos.options[VIRT_PARSERS[pos.p + 1]]
            IN pos' = [pos EXCEPT !.p = @ + 1, !.optlist = optlist, !.i = 0,
                                  !.at = IF optlist = <<>> THEN "class" ELSE "inst"]
    /\ UNCHANGED <<VIRT_PARSERS, created, cls_virtargs, listing, cls, optstr, guest, guest0, pc, mode, rawtuples, opttuples, optdict, inst, newobj, new_object, validate, params, pidx, leftover, cidx, ret, err>>

\* for inst in instlist: if inst and optlist: optlist = [optlist[-1]]
PosNextInst ==
    /\ pos.at = "inst"
    /\ IF pos.i + 1 > Len(pos.instlist)
       THEN pos' = [pos EXCEPT !.at = "class"]
       ELSE pos' = [pos EXCEPT !.i = @ + 1, !.o = 0, !.at = "opt",
                               !.optlist = inst_optlist(pos.instlist[pos.i + 1], @)]
    /\ UNCHANGED <<VIRT_PARSERS, created, cls_virtargs, listing, cls, optstr, guest, guest0, pc, mode, rawtuples, opttuples, optdict, inst, newobj, new_object, validate, params, pidx, leftover, cidx, ret, err>>

\* for optstr in optlist: parserobj = parserclass(optstr, guest=guest)
PosNextOpt ==
    /\ pos.at = "opt"
    /\ IF pos.o + 1 > Len(pos.optlist)
       THEN /\ pos' = [pos EXCEPT !.at = "inst"]
            /\ UNCHANGED <<cls, optstr, guest, guest0, pc>>
       ELSE /\ pos' = [pos EXCEPT !.o = @ + 1, !.at = "call"]
            /\ pc' = "new"
            /\ cls' = VIRT_PARSERS[pos.p]
            /\ optstr' = pos.optlist[pos.o + 1]
            /\ guest' = pos.guests[VIRT_PARSERS[pos.p]]
            /\ guest0' = guest'
    /\ UNCHANGED <<VIRT_PARSERS, created, cls_virtargs, listing, mode, rawtuples, opttuples, optdict, inst, newobj, new_object, validate, params, pidx, leftover, cidx, ret, err>>

\* parseret = parserobj.parse(inst, validate=not update)
PosParse ==
    /\ pos.at = "call"
    /\ pos' = [pos EXCEPT !.calls = Append(@, <<cls, pos.instlist[pos.i], optstr>>)]
    /\ pc = "constructed"
    /\ mode' = "parse"
    /\ validate' = ~pos.update
    /\ LET inst_arg == pos.instlist[pos.i]
       IN IF parse_returns_none(P, optstr)
          THEN /\ pc' = "done"
               /\ ret' = None
               /\ UNCHANGED <<inst, newobj, new_object>>
          ELSE /\ pc' = "claim"
               /\ new_object' = (P.guest_propname # "" /\ inst_arg = 0 /\ P.prop_is_list)
               /\ inst' = IF inst_arg # 0 THEN inst_arg
                          ELSE IF P.prop_is_list THEN 0 ELSE 1
               /\ newobj' = IF new_object' THEN NewObj(cls) ELSE None
               /\ UNCHANGED ret
    /\ UNCHANGED <<VIRT_PARSERS, created, cls_virtargs, listing, cls, optstr, guest, guest0, rawtuples, opttuples, optdict, params, pidx, leftover, cidx, err>>

\* ret += util.listify(parseret); the parser object is dropped
PosCollect ==
    /\ pos.at = "call"
    /\ pc = "done"
    /\ pos' = [pos EXCEPT
                 !.at = "opt",
                 !.guests[cls] = guest,
                 !.ret = IF parse_returns_none(P, optstr) THEN @
                         ELSE @ \o [j \in DOMAIN ret |-> <<cls, ret[j]>>]]
    /\ pc' = "idle"
    /\ guest0' = guest
    /\ mode' = ""
    /\ rawtuples' = <<>>
    /\ opttuples' = <<>>
    /\ optdict' = <<>>
    /\ inst' = 0
    /\ newobj' = None
    /\ new_object' = FALSE
    /\ validate' = FALSE
    /\ params' = <<>>
    /\ pidx' = 0
    /\ leftover' = <<>>
    /\ cidx' = 0
    /\ ret' = None
    /\ err' = NoErr
    /\ UNCHANGED <<VIRT_PARSERS, created, cls_virtargs, listing, cls, optstr, guest>>

NextPos ==
    \/ \E c \in PosClasses : PosRegister(c)
    \/ \E os \in PosOptLists("security"), oi \in PosOptLists("input"),
          instlist \in {<<>>} \cup PosInstLists, update \in BOOLEAN :
            PosStart([c \in PosClasses |-> IF c = "security" THEN os ELSE oi], instlist, update)
    \/ PosNextClass
    \/ PosNextInst
    \/ PosNextOpt
    \/ ParserInit
    \/ PosParse
    \/ OptdictToParamList
    \/ ParseParam
    \/ CheckLeftover
    \/ \E valid \in BOOLEAN : Attach(valid)
    \/ PosCollect

SpecPos == InitPos /\ [][NextPos]_vars

-----------------------------------------------------------------------------
(* The classes of the _ParserChar family are created when the module is    *)
(* imported, _ParserChar first and its subclasses in the order of the      *)
(* module; cls_virtargs is the _virtargs list they share.  A parser of a   *)
(* subclass that exists is then constructed and used.                      *)

CharClasses == <<"_ParserChar", "serial", "parallel", "channel", "console">>

CharFragments ==
    { clearxml \o eq \o <<"y", "e", "s">>,
      clearxml \o eq \o <<"n", "o">>,
      s_path \o eq \o va,
      s_mode \o eq \o vb,
      va }

InitChar ==
    /\ Imported
    /\ cls \in {"serial", "parallel"}
    /\ optstr \in OptStrsOf(CharFragments, MaxTokens)
    /\ guest \in UNION { [1..n -> InitObjs(cls)] : n \in 0..1 }
    /\ cls_virtargs = <<>>
    /\ listing = <<>>
    /\ pc = "import"
    /\ NoInstance

\* the class statement of the next class of the family: _InitClass.__new__
\* calls its _init_class
CreateChar ==
    /\ pc = "import"
    /\ Len(created) < Len(CharClasses)
    /\ created' = Append(created, CharClasses[Len(created) + 1])
    /\ cls_virtargs' = ParserChar_init_class(cls_virtargs)
    /\ UNCHANGED <<VIRT_PARSERS, pos, listing, cls, optstr, guest, guest0, pc, mode, rawtuples, opttuples, optdict, inst, newobj, new_object, validate, params, pidx, leftover, cidx, ret, err>>

\* the class cls exists: a parser of it can be constructed
CharUse ==
    /\ pc = "import"
    /\ \E i \in DOMAIN created : created[i] = cls
    /\ pc' = "new"
    /\ UNCHANGED <<VIRT_PARSERS, pos, created, cls_virtargs, listing, cls, optstr, guest, guest0, mode, rawtuples, opttuples, optdict, inst, newobj, new_object, validate, params, pidx, leftover, cidx, ret, err>>

NextChar ==
    \/ CreateChar
    \/ CharUse
    \/ Next

SpecChar == InitChar /\ [][NextChar]_vars

-----------------------------------------------------------------------------
(* The creation of a parser class: _InitClass.__new__ runs the            *)
(* _init_class of the class, which calls add_arg up to MaxArgs times, and  *)
(* the finished class prints its option names.                             *)

MaxArgs == 2

\* the names an _init_class registers
RegNames == {s_type, s_mode, s_accessmode, s_address_type}

\* the arguments of one add_arg call: cliname, propname, cb, aliases,
\* lookup_cb; lookup_cb "-1" is a call without lookup_cb
RegArgs ==
    { a \in [cliname : RegNames, propname : {"", "p"}, cb : {"", "cb"},
             aliases : {<<>>, <<s_mode>>}, lookup_cb : {"-1", "", "lookup_cb"}] :
        a.aliases # <<>> => a.cliname = s_accessmode }

InitReg ==
    /\ Imported
    /\ cls = "newclass"
    /\ optstr = <<>>
    /\ guest = <<>>
    /\ cls_virtargs = <<>>
    /\ listing = <<>>
    /\ pc = "class"
    /\ NoInstance

\* one cls.add_arg(cliname, propname, cb=, aliases=, lookup_cb=) of
\* _init_class; the RuntimeError of _VirtCLIArgumentStatic.__init__ ends
\* the creation of the class
AddArg(a) ==
    /\ pc = "class"
    /\ Len(cls_virtargs) < MaxArgs + 1
    /\ LET virtarg == VirtCLIArgumentStatic(a.cliname, a.propname, a.cb, FALSE,
                                            FALSE, a.aliases, FALSE,
                                            a.lookup_cb, "")
       IN IF virtarg.err # ""
          THEN /\ cls_virtargs' = IF cls_virtargs = <<>> THEN <<clearxml_virtarg>>
                              ELSE cls_virtargs
               /\ pc' = "failed"
               /\ err' = BareErr(virtarg.err)
          ELSE /\ cls_virtargs' = add_arg(cls_virtargs, virtarg)
               /\ UNCHANGED <<pc, err>>
    /\ UNCHANGED <<VIRT_PARSERS, pos, created, listing, cls, optstr, guest, guest0, mode, rawtuples, opttuples, optdict, inst, newobj, new_object, validate, params, pidx, leftover, cidx, ret>>

\* _init_class returns and _InitClass.__new__ returns the class
EndClass ==
    /\ pc = "class"
    /\ pc' = "new"
    /\ UNCHANGED <<VIRT_PARSERS, pos, created, cls_virtargs, listing, cls, optstr, guest, guest0, mode, rawtuples, opttuples, optdict, inst, newobj, new_object, validate, params, pidx, leftover, cidx, ret, err>>

\* cls.print_introspection()
PrintIntrospection ==
    /\ pc = "new"
    /\ listing = <<>>
    /\ listing' = print_introspection(P.virtargs)
    /\ UNCHANGED <<VIRT_PARSERS, pos, created, cls_virtargs, cls, optstr, guest, guest0, pc, mode, rawtuples, opttuples, optdict, inst, newobj, new_object, validate, params, pidx, leftover, cidx, ret, err>>

NextReg ==
    \/ \E a \in RegArgs : AddArg(a)
    \/ EndClass
    \/ PrintIntrospection

SpecReg == InitReg /\ [][NextReg]_vars

-----------------------------------------------------------------------------
(* --<flag> help followed by a run that gives one of the printed names     *)
(* back to the class as name=value.                                        *)

s_yes == <<"y", "e", "s">>

\* a value the option printed as name accepts: a boolean option takes yes
LegalValue(name) ==
    IF \E i \in DOMAIN P.virtargs :
          P.virtargs[i].cliname = name /\ P.virtargs[i].is_onoff
    THEN s_yes ELSE va

InitIntro ==
    /\ cls \in Classes
    /\ optstr = <<>>
    /\ guest \in InitGuests(cls)
    /\ Fresh

\* the caller takes the i-th printed name as it is and builds the option
\* string name=value of the next run
FeedBack(i) ==
    /\ pc = "new"
    /\ optstr = <<>>
    /\ i \in DOMAIN listing
    /\ optstr' = listing[i] \o eq \o LegalValue(listing[i])
    /\ UNCHANGED <<VIRT_PARSERS, pos, created, cls_virtargs, listing, cls, guest, guest0, pc, mode, rawtuples, opttuples, optdict, inst, newobj, new_object, validate, params, pidx, leftover, cidx, ret, err>>

NextIntro ==
    \/ PrintIntrospection
    \/ \E i \in DOMAIN listing : FeedBack(i)
    \/ Next

SpecIntro == InitIntro /\ [][NextIntro]_vars

-----------------------------------------------------------------------------
(* Properties.                                                             *)

\* the parser has failed: an exception or a fail() reached the caller
Failed == pc = "failed"

\* the keys of self.optdict that no descriptor of the class matches
Unclaimed ==
    LET unknown(k) == \A i \in DOMAIN P.virtargs : ~match_name(P.virtargs[i], k)
    IN SelectSeq(dict_keys(optdict), unknown)

\* parse(): _optdict_to_param_list has returned the params
Claimed == mode = "parse" /\ pidx >= 1

\* parse(): every param has been through parse_param without an error
Bound == Claimed /\ pidx > Len(params)

\* C1: every failure raised while one option string is handled, in the
\* constructor, in parse() or in lookup_child_from_option_string, reaches
\* the caller as the one error whose message carries both the flag name of
\* the class and the raw option string.
C1_EveryFailureCarriesFlagAndOptstr ==
    Failed => err.has_flag /\ err.has_optstr

\* --filesystem '"a': the ValueError of the tokenizer leaves the constructor
C1_Witness ==
    /\ cls = "filesystem"
    /\ optstr = <<"\"">> \o va
    /\ Failed
    /\ mode = ""
    /\ err.kind = "No closing quotation"
    /\ ~err.has_flag /\ ~err.has_optstr

\* C2 as stated: in construct mode, once the descriptors have claimed their
\* keys, the parse fails with the unknown-option error exactly when a key is
\* left unclaimed.
C2_UnknownIffUnclaimed ==
    (Claimed /\ pc \in {"done", "failed"}) =>
        ((Unclaimed # <<>>) <=> (err.kind = "Unknown options"))

\* C2 amended: in construct mode, once every claimed entry has been bound
\* without an error, the parse fails with the unknown-option error if any
\* key is left unclaimed, and that error names every unclaimed key, in the
\* order of the mapping; a parse that gets past the check, and one that
\* fails with no key left, never raises that error.
C2_UnknownOptionsNamesEveryKey ==
    /\ (Bound /\ pc \in {"attach", "done"}) => Unclaimed = <<>>
    /\ (Bound /\ Failed /\ Unclaimed # <<>>) =>
            /\ err.kind = "Unknown options"
            /\ err.keys = Unclaimed
    /\ (mode = "parse" /\ Failed /\ err.kind = "Unknown options") =>
            /\ Bound
            /\ Unclaimed # <<>>
            /\ err.keys = Unclaimed

\* security "b=,x=b": the error names both b and x
C2_Witness ==
    /\ mode = "parse"
    /\ Failed
    /\ err.kind = "Unknown options"
    /\ err.keys = <<vb, <<"x">>>>

\* the words the claim lists
C3_TrueWords == {<<"y">>, <<"y", "e", "s">>, <<"1">>, <<"t", "r", "u", "e">>, <<"t">>, <<"o", "n">>}

C3_FalseWords == {<<"n">>, <<"n", "o">>, <<"0">>, <<"f", "a", "l", "s", "e">>, <<"f">>, <<"o", "f", "f">>}

\* the value supplied for relabel in "relabel=<word>"
C3_Word == SubSeq(optstr, Len(s_relabel) + 2, Len(optstr))

C3_Expected ==
    IF lower(C3_Word) \in C3_TrueWords THEN True
    ELSE IF lower(C3_Word) \in C3_FalseWords THEN False
    ELSE None

\* the object parse() has returned
C3_Returned == guest[ret[1]]

\* C3: relabel is flagged for boolean normalization.  A supplied word is
\* bound as true exactly when its lower-cased form is one of y, yes, 1,
\* true, t, on, as false exactly when it is one of n, no, 0, false, f, off;
\* with any other non-empty word the bind fails with the conversion error,
\* no param is made and nothing is assigned.
C3_OnOffConversion ==
    /\ \A i \in DOMAIN params :
            /\ params[i].val = C3_Expected
            /\ (params[i].val = True) <=> (lower(C3_Word) \in C3_TrueWords)
            /\ (params[i].val = False) <=> (lower(C3_Word) \in C3_FalseWords)
    /\ (C3_Word # <<>> /\ C3_Expected = None) =>
            /\ params = <<>>
            /\ guest = guest0
            /\ newobj \in {None, NewObj(cls)}
            /\ pc \in {"new", "constructed", "claim", "lookup", "failed"}
            /\ Failed => err.kind = "must be 'yes' or 'no'"
            /\ pc = "lookup" => cidx = 1 /\ ret = <<>>
    /\ (Failed /\ err.kind = "must be 'yes' or 'no'") =>
            (C3_Word # <<>> /\ C3_Expected = None)
    /\ (mode = "parse" /\ pc = "done") =>
            C3_Returned.props["relabel"] = C3_Expected
    /\ (mode # "" /\ pc \in {"bind", "attach", "done"}) => Len(params) = 1

\* relabel=nO on an object whose relabel was true: now false
C3_Witness ==
    /\ C3_Word = <<"n", "O">>
    /\ mode = "parse"
    /\ pc = "done"
    /\ inst = 1
    /\ guest0[1].props["relabel"] = True
    /\ guest[1].props["relabel"] = False

\* the index an option name carries after "cell": cell3.id has 3, cell.id 0
KeyIndex(key) ==
    IF Len(key) > Len(s_cell) /\ key[Len(s_cell) + 1] \in Digits
    THEN DigitVal(key[Len(s_cell) + 1])
    ELSE 0

\* the descriptor that claims key
KeyArg(key) ==
    P.virtargs[CHOOSE i \in DOMAIN P.virtargs : match_name(P.virtargs[i], key)]

\* key is an indexed option of the repeating list cpu.cells
Indexed(key) == cls = "cpu" /\ SubSeq(key, 1, Len(s_cell)) = s_cell

\* C4, construct mode: binding an indexed option with index k to a list of
\* n cells leaves the list with exactly max(n, k+1) cells, the cells that
\* were there unchanged but for cell k, the added ones new but for cell k,
\* and cell k holding the value.
C4_GrowStep ==
    (pc = "bind" /\ pidx <= Len(params) /\ Indexed(params[pidx].key)) =>
        LET k == KeyIndex(params[pidx].key)
            n == Len(guest[1].list)
            prop == KeyArg(params[pidx].key).propname
        IN /\ Len(guest'[1].list) = Max(n, k + 1)
           /\ guest'[1].list[k + 1].props[prop] = params[pidx].val
           /\ \A j \in 1..Max(n, k + 1) :
                \/ j = k + 1
                \/ guest'[1].list[j] = IF j <= n THEN guest[1].list[j]
                                        ELSE NewObj("cell")
           /\ pidx' = pidx + 1

\* C4, match mode: the list is never changed, and an option whose index k
\* is not below the length n of the candidate's list makes the candidate
\* not match.
C4_MatchKeeps ==
    mode = "lookup" =>
        /\ guest = guest0
        /\ \A c \in 1..Len(guest) :
            (/\ c < cidx
             /\ \E i \in DOMAIN optdict :
                    /\ Indexed(optdict[i][1])
                    /\ KeyIndex(optdict[i][1]) >= Len(guest[c].list))
            => \A r \in DOMAIN ret : ret[r] # c

\* C4: an indexed option with index k against a repeating list of length n:
\* construct mode grows the list to exactly max(n, k+1) entries and assigns
\* entry k; match mode leaves the length as it is and reports no match when
\* k >= n.
C4_IndexedOption == [][C4_GrowStep]_vars /\ []C4_MatchKeeps

\* --cpu cell2.id=a on a cpu without cells: three cells, the third has id a
C4_Witness ==
    /\ cls = "cpu"
    /\ mode = "parse"
    /\ pc = "done"
    /\ guest0[1].list = <<>>
    /\ Len(guest[1].list) = 3
    /\ guest[1].list[3].props["id"] = va
    /\ guest[1].list[1] = NewObj("cell")

\* C5: parse() of an empty option string, or of exactly "none" by a class
\* with stub_none, returns None at once: no object is created, nothing is
\* attached to the guest and no attribute of an object is assigned.
C5_NoneLeavesAllUnchanged ==
    (mode = "parse" /\ (optstr = <<>> \/ (P.stub_none /\ optstr = s_none))) =>
        /\ pc = "done"
        /\ ret = None
        /\ guest = guest0
        /\ newobj = None
        /\ ~new_object

\* --security none with two seclabels in the guest
C5_Witness ==
    /\ cls = "security"
    /\ optstr = s_none
    /\ mode = "parse"
    /\ pc = "done"
    /\ ret = None
    /\ Len(guest) = 2

\* the value an entry of the mapping is compared as: "" is None, a boolean
\* option its boolean
C6_Value(key, raw) ==
    IF raw = <<>> THEN None
    ELSE IF ~KeyArg(key).is_onoff THEN raw
    ELSE IF lower(raw) \in C3_TrueWords THEN True
    ELSE False

\* candidate o compares equal on the entry <<key, raw>> of the mapping
C6_EntryEqual(o, key, raw) ==
    LET prop == KeyArg(key).propname
    IN IF Indexed(key)
       THEN /\ KeyIndex(key) < Len(o.list)
            /\ o.list[KeyIndex(key) + 1].props[prop] = C6_Value(key, raw)
       ELSE o.props[prop] = C6_Value(key, raw)

C6_Matches(o) ==
    \A i \in DOMAIN optdict : C6_EntryEqual(o, optdict[i][1], optdict[i][2])

\* C6: lookup_child_from_option_string returns exactly the candidates, in
\* their order in the guest, that compare equal on every entry of the
\* mapping, each candidate judged by itself; no candidate is changed.
C6_LookupReturnsMatches ==
    mode = "lookup" =>
        /\ guest = guest0
        /\ pc = "done" =>
            LET idx == [i \in 1..Len(objlist) |-> i]
                matches(i) == C6_Matches(objlist[i])
            IN ret = SelectSeq(idx, matches)

\* --security model=a,relabel=yes: of two seclabels only the second matches
C6_Witness ==
    /\ cls = "security"
    /\ mode = "lookup"
    /\ pc = "done"
    /\ Len(optdict) = 2
    /\ Len(guest) = 2
    /\ ret = <<2>>

RECURSIVE SplitAt(_, _)
\* the pieces of s between the occurrences of the character c
SplitAt(s, c) ==
    LET k == IndexOf(s, c, 1)
    IN IF s = <<>> THEN <<>>
       ELSE IF k = 0 THEN <<s>>
       ELSE <<SubSeq(s, 1, k - 1)>> \o SplitAt(SubSeq(s, k + 1, Len(s)), c)

\* optstr has none of the characters the tokenizer treats specially
Plain(s) == \A i \in DOMAIN s : s[i] \notin {"\"", "'", "\\"}

\* key is claimed by a descriptor of the class
Recognized(key) == \E i \in DOMAIN P.virtargs : match_name(P.virtargs[i], key)

\* the mapping has a recognized option whose value is absent
AbsentValue ==
    \E i \in DOMAIN optdict : Recognized(optdict[i][1]) /\ optdict[i][2] = None

\* C7, tokenizer: the i-th token of the option string is <<name, None>>
\* when it has no "=", <<name, value>> when it has one, value being the
\* empty string for "name=".
C7_Tokens ==
    (pc # "new" /\ Plain(optstr)) =>
        /\ Len(rawtuples) = Len(SplitAt(optstr, ","))
        /\ \A i \in DOMAIN rawtuples :
            LET piece == SplitAt(optstr, ",")[i]
                k == IndexOf(piece, "=", 1)
            IN /\ rawtuples[i][1] = SubSeq(piece, 1, IF k = 0 THEN Len(piece) ELSE k - 1)
               /\ (k = 0) <=> (rawtuples[i][2] = None)
               /\ k # 0 => rawtuples[i][2] = SubSeq(piece, k + 1, Len(piece))
               /\ k = Len(piece) => rawtuples[i][2] = <<>>

\* the one object parse() has worked on
C7_Target == IF inst = 0 THEN guest[Len(guest)] ELSE guest[inst]

\* C7, binder: with a recognized option whose value is absent, parse() and
\* a lookup with a candidate fail with 'had no value set' before a param is
\* bound; that error is raised for no other reason; an explicit empty value
\* is bound as None and is never the reason of a failure.
C7_Bind ==
    /\ (AbsentValue /\ mode # "" /\ ~parse_returns_none(P, optstr)
            /\ (mode = "lookup" => objlist # <<>>)) =>
            /\ pc \in {"claim", "lookup", "failed"}
            /\ guest = guest0
            /\ params = <<>>
            /\ Failed => err.kind = "had no value set"
            /\ pc = "lookup" => cidx = 1 /\ ret = <<>>
    /\ (Failed /\ err.kind = "had no value set") =>
            AbsentValue /\ err.has_flag /\ err.has_optstr
    /\ \A i \in DOMAIN params :
            dict_get(optdict, params[i].key) = <<>> => params[i].val = None
    /\ (mode = "parse" /\ pc = "done" /\ ~parse_returns_none(P, optstr)) =>
            \A i \in DOMAIN optdict :
                (/\ optdict[i][2] = <<>>
                 /\ KeyArg(optdict[i][1]).cb = ""
                 /\ ~Indexed(optdict[i][1])
                 /\ \A j \in DOMAIN optdict :
                        j > i => KeyArg(optdict[j][1]) # KeyArg(optdict[i][1]))
                => C7_Target.props[KeyArg(optdict[i][1]).propname] = None

\* C7: a token without "=" has an absent value, a token "name=" an explicit
\* empty one; a recognized option with an absent value is the error 'had no
\* value set', one with an explicit empty value is bound as None.
C7_AbsentAndEmptyValues == C7_Tokens /\ C7_Bind

\* --filesystem accessmode= on a filesystem whose accessmode was b
C7_Witness ==
    /\ cls = "filesystem"
    /\ optstr = s_accessmode \o eq
    /\ rawtuples = <<<<s_accessmode, <<>>>>>>
    /\ mode = "parse"
    /\ pc = "done"
    /\ inst = 1
    /\ guest0[1].props["accessmode"] = vb
    /\ guest[1].props["accessmode"] = None

RECURSIVE LeadingBare(_)
\* the number of tokens without a value that open seq
LeadingBare(seq) ==
    IF seq = <<>> \/ seq[1][2] # None THEN 0
    ELSE 1 + LeadingBare(Tail(seq))

\* C8: the i-th leading token without "=" becomes the value of the i-th
\* name of remove_first; the substitution ends at the first token that has
\* a value or when remove_first is used up, and every token from there on
\* is kept as it was.
C8_PositionalSubstitution ==
    pc # "new" =>
        LET k == Min(LeadingBare(rawtuples), Len(P.remove_first))
        IN /\ Len(opttuples) = Len(rawtuples)
           /\ \A i \in DOMAIN rawtuples :
                opttuples[i] = IF i <= k
                               THEN <<P.remove_first[i], rawtuples[i][1]>>
                               ELSE rawtuples[i]

\* --filesystem a,b,a: source=a, target=b, and the third a is left bare
C8_Witness ==
    /\ cls = "filesystem"
    /\ pc = "constructed"
    /\ rawtuples = <<<<va, None>>, <<vb, None>>, <<va, None>>>>
    /\ opttuples = <<<<s_source, va>>, <<s_target, vb>>, <<va, None>>>>

RECURSIVE C9_Rejoin(_, _)
\* val with the tokens of toks up to the first recognized name appended,
\* each as ",name=value" or, without a value, ",name"
C9_Rejoin(val, toks) ==
    IF toks = <<>> \/ Recognized(toks[1][1]) THEN val
    ELSE C9_Rejoin(val \o <<",">> \o toks[1][1]
                       \o (IF toks[1][2] = None THEN <<>> ELSE eq \o toks[1][2]),
                   Tail(toks))

\* C9: when the first token is an option with comma-continuation and its
\* name is not given again, its value in the mapping is its own value
\* followed by the rejoined tokens up to the first recognized name.
C9_CommaContinuationRejoins ==
    (/\ pc = "constructed"
     /\ opttuples # <<>>
     /\ Recognized(opttuples[1][1])
     /\ KeyArg(opttuples[1][1]).can_comma
     /\ opttuples[1][2] # None
     /\ \A i \in 2..Len(opttuples) : opttuples[i][1] # opttuples[1][1])
    => dict_get(optdict, opttuples[1][1])
            = C9_Rejoin(opttuples[1][2], Tail(opttuples))

\* --security label=a,b=: the "=" of the second token is lost
C9_Witness ==
    /\ cls = "security"
    /\ optstr = s_label \o eq \o va \o <<",">> \o vb \o eq
    /\ pc = "constructed"
    /\ rawtuples = <<<<s_label, va>>, <<vb, <<>>>>>>
    /\ optdict = <<<<s_label, va \o <<",">> \o vb>>>>

\* C10: the mapping is keyed by the canonical name of the descriptor a
\* token denotes, so no two keys of the mapping denote the same descriptor:
\* a name and one of its aliases end up in one entry.
C10_OneKeyPerDescriptor ==
    pc = "constructed" =>
        \A i, j \in DOMAIN optdict :
            (/\ i # j
             /\ Recognized(optdict[i][1])
             /\ Recognized(optdict[j][1])
             /\ ~Indexed(optdict[i][1]))
            => KeyArg(optdict[i][1]) # KeyArg(optdict[j][1])

\* --filesystem accessmode=a,mode=b,accessmode=: two keys, accessmode with
\* the later, empty value and the alias mode
C10_Witness ==
    /\ cls = "filesystem"
    /\ pc = "constructed"
    /\ Len(opttuples) = 3
    /\ optdict = <<<<s_accessmode, <<>>>>, <<s_mode, vb>>>>

\* the param bound at this step is of a descriptor registered no later
\* than the descriptor of any param still to bind, and no earlier than
\* that of any param already bound
C11_BindStep ==
    (pc = "bind" /\ pidx <= Len(params)) =>
        /\ \A j \in DOMAIN params :
                /\ j < pidx => params[j].virtarg <= params[pidx].virtarg
                /\ j > pidx => params[j].virtarg >= params[pidx].virtarg
        /\ pc' = "bind" => pidx' = pidx + 1

\* every recognized key of the mapping is a param once the keys are claimed
C11_AllClaimed ==
    (mode = "parse" /\ pc \in {"bind", "attach", "done"}) =>
        /\ Len(params) = Cardinality({ i \in DOMAIN optdict : Recognized(optdict[i][1]) })
        /\ \A i \in DOMAIN optdict :
                Recognized(optdict[i][1]) =>
                    \E j \in DOMAIN params :
                        /\ params[j].key = optdict[i][1]
                        /\ P.virtargs[params[j].virtarg] = KeyArg(optdict[i][1])

\* C11: the entries of the mapping are bound in the order in which their
\* descriptors are registered, not in the order of the option string: every
\* entry of a descriptor registered earlier is applied before any entry of a
\* descriptor registered later.
C11_BoundInRegistryOrder == [][C11_BindStep]_vars /\ []C11_AllClaimed

\* --security model=a,clearxml=yes on a seclabel: clearxml, registered
\* first, is applied first, so the model given before it stays
C11_Witness ==
    /\ optstr = s_model \o eq \o va \o <<",">> \o clearxml \o eq \o <<"y", "e", "s">>
    /\ mode = "parse"
    /\ pc = "done"
    /\ inst = 1
    /\ guest0[1].props["relabel"] = True
    /\ guest[1].props["relabel"] = None
    /\ guest[1].props["model"] = va

\* entry i of the mapping has the value "default" on a descriptor with
\* ignore_default
C12_Skipped(i) ==
    /\ Recognized(optdict[i][1])
    /\ optdict[i][2] = s_default
    /\ KeyArg(optdict[i][1]).ignore_default

\* the value attribute a of the target had before parse()
C12_Before(a) == IF inst = 0 THEN None ELSE guest0[inst].props[a]

\* construct mode: an attribute that only skipped entries name is left as
\* it was
C12_ParseSkips ==
    (cls = "input" /\ mode = "parse" /\ pc = "done" /\ ~parse_returns_none(P, optstr)) =>
        \A a \in DOMAIN C7_Target.props :
            (\A i \in DOMAIN optdict :
                KeyArg(optdict[i][1]).propname = a => C12_Skipped(i))
            => C7_Target.props[a] = C12_Before(a)

\* match mode: the candidates returned are those that match on the entries
\* that are not skipped
C12_LookupSkips ==
    (cls = "input" /\ mode = "lookup" /\ pc = "done") =>
        LET idx == [i \in 1..Len(objlist) |-> i]
            matches(c) == \A i \in DOMAIN optdict :
                            \/ C12_Skipped(i)
                            \/ C6_EntryEqual(objlist[c], optdict[i][1], optdict[i][2])
        IN ret = SelectSeq(idx, matches)

\* in both modes a skipped entry is claimed: never reported as unknown
C12_SkippedIsClaimed ==
    (Failed /\ err.kind = "Unknown options") =>
        \A i \in DOMAIN optdict :
            C12_Skipped(i) => \A k \in DOMAIN err.keys : err.keys[k] # optdict[i][1]

\* C12: in construct mode and in match mode an entry with the value
\* "default" on a descriptor with ignore_default has no effect: construct
\* mode assigns nothing for it, match mode returns the candidates it would
\* return without it, and its key counts as claimed.
C12_DefaultIsDropped == C12_ParseSkips /\ C12_LookupSkips /\ C12_SkippedIsClaimed

\* --input type=default looked up among two inputs: none is returned
C12_Witness ==
    /\ cls = "input"
    /\ optstr = s_type \o eq \o s_default
    /\ mode = "lookup"
    /\ pc = "done"
    /\ Len(guest) = 2
    /\ ret = <<>>

\* print_introspection has printed the names of the class
Listed == pc = "new" /\ listing # <<>>

IsAddress(name) == StartsWithAt(name, 1, s_address_dot)

\* the group of a listed name: clearxml, the address options, the others
C13_Group(name) ==
    IF name = clearxml THEN 0 ELSE IF IsAddress(name) THEN 1 ELSE 2

\* how often name is in the sequence names
C13_Count(names, name) == Cardinality({ i \in DOMAIN names : names[i] = name })

\* C13 as stated: the listing has clearxml first, every address.-prefixed
\* name behind all names that are not address names, and the remaining
\* names in sorted order.
C13_AddressOptionsLast ==
    Listed =>
        /\ listing[1] = clearxml
        /\ \A i, j \in DOMAIN listing :
              (IsAddress(listing[i]) /\ ~IsAddress(listing[j])) => j < i
        /\ \A i, j \in DOMAIN listing :
              (i < j /\ C13_Group(listing[i]) = 2 /\ C13_Group(listing[j]) = 2)
                  => ~str_lt(listing[j], listing[i])

\* C13 amended: the listing holds the registered names, each as often as it
\* is registered; clearxml is first, the address.-prefixed names follow it,
\* the names that are neither come last, and the names of one group are in
\* ascending order of their characters.
C13_AddressOptionsSecond ==
    Listed =>
        /\ Len(listing) = Len(P.virtargs)
        /\ \A k \in DOMAIN P.virtargs :
              C13_Count(listing, P.virtargs[k].cliname)
                  = C13_Count([n \in DOMAIN P.virtargs |-> P.virtargs[n].cliname],
                              P.virtargs[k].cliname)
        /\ listing[1] = clearxml
        /\ \A i, j \in DOMAIN listing :
              i < j =>
                  /\ C13_Group(listing[i]) <= C13_Group(listing[j])
                  /\ C13_Group(listing[i]) = C13_Group(listing[j])
                        => ~str_lt(listing[j], listing[i])

\* type is registered before address.type and listed behind it
C13_Witness ==
    /\ Listed
    /\ cls = "newclass"
    /\ cls_virtargs[2].cliname = s_type
    /\ listing = <<clearxml, s_address_type, s_type>>

\* the option string is a printed name given back as name=value
FedBack == \E i \in DOMAIN listing : optstr = listing[i] \o eq \o LegalValue(listing[i])

\* the printed name that was given back
C14_Name == listing[CHOOSE i \in DOMAIN listing : optstr = listing[i] \o eq \o LegalValue(listing[i])]

\* name has the index placeholder [0-9]* of an indexed pattern
HasPlaceholder(name) ==
    \E i \in DOMAIN name : StartsWithAt(name, i, DigitStar)

\* C14 as stated: every printed name, given back unchanged as name=value
\* with a legal value, is recognized by a descriptor of the class and does
\* not end in the unknown-option error, the names of indexed patterns
\* included.
C14_EveryListedNameBinds ==
    (FedBack /\ pc # "new") =>
        /\ optdict = <<<<C14_Name, LegalValue(C14_Name)>>>>
        /\ Recognized(C14_Name)
        /\ err.kind # "Unknown options"

\* C14 amended: a printed name without an index placeholder, given back
\* unchanged as name=value with a legal value, is recognized by a
\* descriptor of the class and does not end in the unknown-option error; an
\* indexed pattern is printed as the pattern itself, and that name given
\* back unchanged is recognized by no descriptor: construct and match mode
\* both end in the unknown-option error that names it.
C14_LiteralNamesBind ==
    (FedBack /\ pc # "new") =>
        /\ optdict = <<<<C14_Name, LegalValue(C14_Name)>>>>
        /\ Recognized(C14_Name) <=> ~HasPlaceholder(C14_Name)
        /\ ~HasPlaceholder(C14_Name) => err.kind # "Unknown options"
        /\ (HasPlaceholder(C14_Name) /\ pc \in {"done", "failed"}) =>
              /\ Failed
              /\ err.kind = "Unknown options"
              /\ err.keys = <<C14_Name>>

\* --cpu help prints cell[0-9]*.id; --cpu cell[0-9]*.id=a is an unknown
\* option
C14_Witness ==
    /\ cls = "cpu"
    /\ FedBack
    /\ C14_Name = s_cell_id
    /\ mode = "parse"
    /\ Failed
    /\ err.kind = "Unknown options"

\* --filesystem help prints address.type; --filesystem address.type=a binds
C14_WitnessLiteral ==
    /\ cls = "filesystem"
    /\ FedBack
    /\ C14_Name = s_address_type
    /\ mode = "parse"
    /\ pc = "done"
    /\ guest[ret[1]].props["address.type"] = va

RECURSIVE TopPieces(_, _, _, _)
\* the pieces of s between its commas outside double quotes, the quote
\* characters taken out; inq: position i is inside quotes, cur: the piece
\* read so far
TopPieces(s, i, inq, cur) ==
    IF i > Len(s) THEN <<cur>>
    ELSE IF s[i] = "\"" THEN TopPieces(s, i + 1, ~inq, cur)
    ELSE IF s[i] = "," /\ ~inq THEN <<cur>> \o TopPieces(s, i + 1, inq, <<>>)
    ELSE TopPieces(s, i + 1, inq, Append(cur, s[i]))

\* the number of commas of s outside double quotes
TopCommas(s) == Len(TopPieces(s, 1, FALSE, <<>>)) - 1

\* the pieces that are not empty
Tokens(s) == SelectSeq(TopPieces(s, 1, FALSE, <<>>), LAMBDA t : t # <<>>)

\* the constructor has tokenized the option string
Tokenized == pc # "new" /\ err.kind # "No closing quotation"

\* C15 as stated: an option string with N commas outside quotes gives
\* exactly N+1 tokens, also when commas are adjacent, leading or trailing.
C15_OneTokenPerComma ==
    Tokenized => Len(rawtuples) = TopCommas(optstr) + 1

\* C15 amended: an option string gives one token for each piece between
\* its commas outside quotes that is not empty once the quotes are taken
\* out: N+1 tokens for N such commas when no piece is empty, fewer when
\* commas are adjacent, leading or trailing, when a piece is an empty
\* quoted string, and none for the empty option string.
C15_OneTokenPerNonEmptyPiece ==
    Tokenized =>
        /\ Len(rawtuples) = Len(Tokens(optstr))
        /\ Len(rawtuples) <= TopCommas(optstr) + 1
        /\ (Len(rawtuples) = TopCommas(optstr) + 1)
              <=> (\A t \in DOMAIN TopPieces(optstr, 1, FALSE, <<>>) :
                      TopPieces(optstr, 1, FALSE, <<>>)[t] # <<>>)

\* ",a,,a,": four commas, two tokens
C15_Witness ==
    /\ Tokenized
    /\ optstr = <<",", "a", ",", ",", "a", ",">>
    /\ rawtuples = << <<va, None>>, <<va, None>> >>

\* C16: the tokenizer splits only at commas outside quotes, so a quoted
\* substring with commas stays in one token, and it splits each token into
\* name and value at the first "=" of the token only, so that every further
\* "=" is part of the value; a token without "=" has no value.
C16_QuotedCommasAndFirstEquals ==
    Tokenized =>
        /\ Len(rawtuples) = Len(Tokens(optstr))
        /\ \A i \in DOMAIN rawtuples :
              LET t == Tokens(optstr)[i]
                  name == rawtuples[i][1]
                  val == rawtuples[i][2]
              IN /\ \A k \in DOMAIN name : name[k] # "="
                 /\ IF val = None THEN t = name
                    ELSE t = name \o eq \o val

\* a="=,": one token, the name a and the value =, with the quoted comma
C16_Witness ==
    /\ Tokenized
    /\ optstr = <<"a", "=", "\"", "=", ",", "\"">>
    /\ rawtuples = << <<va, <<"=", ",">> >> >>

\* the RuntimeErrors of _VirtCLIArgumentStatic.__init__
ProgrammingErrors ==
    {"propname or cb must be specified",
     "propname is None but lookup_cb is not specified"}

\* the add_arg arguments a name neither an attribute path nor a conversion
\* callback, or no attribute path and no lookup_cb argument at all
C17_Rejected(a) ==
    \/ a.propname = "" /\ a.cb = ""
    \/ a.propname = "" /\ a.lookup_cb = "-1"

\* C17, one registration: add_arg raises a programming error and adds no
\* descriptor exactly when its arguments are rejected ones; otherwise it
\* appends the descriptor of its arguments, lookup_cb=None included.
C17_RegistrationStep ==
    \A a \in RegArgs :
        AddArg(a) =>
            IF C17_Rejected(a)
            THEN /\ pc' = "failed"
                 /\ err'.kind \in ProgrammingErrors
                 /\ ~err'.has_flag
                 /\ cls_virtargs' = IF cls_virtargs = <<>> THEN <<clearxml_virtarg>>
                                    ELSE cls_virtargs
            ELSE /\ pc' = "class"
                 /\ err' = NoErr
                 /\ Len(cls_virtargs') = Max(Len(cls_virtargs), 1) + 1
                 /\ SubSeq(cls_virtargs', 1, Len(cls_virtargs') - 1)
                        = (IF cls_virtargs = <<>> THEN <<clearxml_virtarg>>
                           ELSE cls_virtargs)
                 /\ LET new == cls_virtargs'[Len(cls_virtargs')]
                    IN /\ new.cliname = a.cliname
                       /\ new.propname = a.propname
                       /\ new.cb = a.cb
                       /\ new.aliases = a.aliases
                       /\ new.lookup_cb = (IF a.lookup_cb = "-1" THEN "" ELSE a.lookup_cb)

\* C17, the registry: every descriptor in it has an attribute path or a
\* conversion callback
C17_Accepted ==
    \A i \in DOMAIN cls_virtargs :
        cls_virtargs[i].propname # "" \/ cls_virtargs[i].cb # ""

\* C17: registration rejects with a programming error, raised when the
\* descriptor is constructed, a descriptor with neither attribute path nor
\* conversion callback and a descriptor without attribute path whose
\* lookup callback was not given; lookup_cb=None is accepted; every
\* descriptor that is accepted satisfies both conditions.
C17_RegistrationRejects == [][C17_RegistrationStep]_vars /\ []C17_Accepted

\* add_arg("type", None, cb=cb, lookup_cb=None) is accepted, a second
\* add_arg without lookup_cb is rejected
C17_Witness ==
    /\ cls = "newclass"
    /\ pc = "failed"
    /\ err.kind = "propname is None but lookup_cb is not specified"
    /\ Len(cls_virtargs) = 2
    /\ cls_virtargs[2].propname = ""
    /\ cls_virtargs[2].cb = "cb"
    /\ cls_virtargs[2].lookup_cb = ""

\* the descriptor has neither an attribute path nor a lookup callback
NoComparison(virtarg) == virtarg.propname = "" /\ virtarg.lookup_cb = ""

\* the mapping has an option of a descriptor without comparison
C18_MeetsNoComparison ==
    \E i \in DOMAIN optdict :
        /\ Recognized(optdict[i][1])
        /\ NoComparison(KeyArg(optdict[i][1]))

\* C18 as stated: no descriptor of a registry lacks both attribute path and
\* lookup callback, and match mode never fails because it does not know
\* how to compare a registered option.
C18_EveryOptionComparable ==
    /\ \A i \in DOMAIN P.virtargs : ~NoComparison(P.virtargs[i])
    /\ ~(mode = "lookup" /\ Failed /\ err.kind = "Don't know how to match")

\* C18 amended: a descriptor without attribute path is accepted into a
\* registry when lookup_cb=None is given with it, and clearxml is such a
\* descriptor in every registry.  Match mode fails with the error "Don't
\* know how to match", which carries the flag and the option string, only
\* when the option string names such an option; and when the option string
\* has clearxml and there is a candidate, match mode ends in that error
\* unless a value of the option string was rejected before.
C18_UncomparableOptionFailsMatch ==
    /\ \E i \in DOMAIN P.virtargs :
          /\ P.virtargs[i].cliname = clearxml
          /\ NoComparison(P.virtargs[i])
          /\ P.virtargs[i].err = ""
    /\ (mode = "lookup" /\ Failed /\ err.kind = "Don't know how to match") =>
          /\ C18_MeetsNoComparison
          /\ err.has_flag /\ err.has_optstr
    /\ (mode = "lookup" /\ pc \in {"done", "failed"} /\ objlist # <<>>
            /\ dict_has(optdict, clearxml)) =>
          /\ Failed
          /\ err.kind \in {"Don't know how to match",
                           "must be 'yes' or 'no'", "had no value set"}

\* virt-xml --edit clearxml=yes --security ...: the lookup does not know
\* how to match clearxml
C18_Witness ==
    /\ cls = "security"
    /\ mode = "lookup"
    /\ optdict = << <<clearxml, s_yes>> >>
    /\ Failed
    /\ err.kind = "Don't know how to match"

\* C19: once add_arg has accepted the descriptors of a class, no option
\* name matches more than one of them; a registration that would make a
\* name match two descriptors has failed.
C19_NoNameMatchesTwo ==
    (cls = "newclass" /\ pc \in {"class", "new"}) =>
        \A i, j \in DOMAIN cls_virtargs :
            i # j => \A name \in RegNames :
                        ~(match_name(cls_virtargs[i], name)
                             /\ match_name(cls_virtargs[j], name))

\* add_arg("mode", "p"); add_arg("accessmode", "p", aliases=["mode"]): the
\* class is created and mode matches both descriptors
C19_Witness ==
    /\ cls = "newclass"
    /\ pc = "new"
    /\ Len(cls_virtargs) = 3
    /\ cls_virtargs[2].cliname = s_mode
    /\ cls_virtargs[3].cliname = s_accessmode
    /\ match_name(cls_virtargs[2], s_mode)
    /\ match_name(cls_virtargs[3], s_mode)
    /\ err = NoErr

RECURSIVE C20_Digits(_, _)
\* the positions behind a run of one or more digits of s that starts at j
C20_Digits(s, j) ==
    IF j > Len(s) \/ s[j] \notin Digits THEN {}
    ELSE {j + 1} \cup C20_Digits(s, j + 1)

RECURSIVE C20_Equal(_, _, _, _)
\* s from j on is pat from p on, character for character, with a decimal
\* integer in the place of each index placeholder
C20_Equal(pat, p, s, j) ==
    IF p > Len(pat) THEN j > Len(s)
    ELSE IF StartsWithAt(pat, p, DigitStar)
         THEN \E k \in C20_Digits(s, j) : C20_Equal(pat, p + Len(DigitStar), s, k)
    ELSE /\ j <= Len(s)
         /\ s[j] = pat[p]
         /\ C20_Equal(pat, p + 1, s, j + 1)

\* key is structurally equal to the name or an alias of a descriptor
C20_StructurallyEqual(key) ==
    \E i \in DOMAIN P.virtargs :
        \E name \in {P.virtargs[i].cliname}
                    \cup {P.virtargs[i].aliases[n] : n \in DOMAIN P.virtargs[i].aliases} :
            C20_Equal(name, 1, key, 1)

\* C20: an option name is recognized by a descriptor only if it is equal,
\* character for character, to the name or an alias of the descriptor, or
\* to its pattern with a decimal integer in the place of each index
\* placeholder; a name with another character in the place of a "." or
\* without the index digits is not recognized.
C20_MatchIsStructuralEquality ==
    pc # "new" =>
        \A i \in DOMAIN optdict :
            Recognized(optdict[i][1]) => C20_StructurallyEqual(optdict[i][1])

\* --filesystem addressXtype=a sets address.type of the new filesystem
C20_Witness ==
    /\ cls = "filesystem"
    /\ optdict = << << <<"a", "d", "d", "r", "e", "s", "s", "X">> \o s_type, va >> >>
    /\ mode = "parse"
    /\ pc = "done"
    /\ guest[ret[1]].props["address.type"] = va

\* C21, one call: register() of a class that is in the list leaves the
\* list as it is, register() of any other class appends it, and nothing
\* already in the list moves or leaves.
C21_RegisterStep ==
    \A c \in Classes :
        Register(c) =>
            IF \E i \in DOMAIN VIRT_PARSERS : VIRT_PARSERS[i] = c
            THEN VIRT_PARSERS' = VIRT_PARSERS
            ELSE /\ Len(VIRT_PARSERS') = Len(VIRT_PARSERS) + 1
                 /\ VIRT_PARSERS'[Len(VIRT_PARSERS')] = c
                 /\ SubSeq(VIRT_PARSERS', 1, Len(VIRT_PARSERS)) = VIRT_PARSERS

\* C21, the list: no class is in it twice
C21_EachOnce ==
    \A i, j \in DOMAIN VIRT_PARSERS :
        VIRT_PARSERS[i] = VIRT_PARSERS[j] => i = j

\* C21: registration is idempotent and append-only: after any sequence of
\* register() calls the parser list holds each registered class exactly
\* once, in the order of the first registrations, and registering a class
\* again leaves the list unchanged.
C21_RegistrationIdempotent == [][C21_RegisterStep]_vars /\ []C21_EachOnce

\* three classes registered, whatever was registered again in between
C21_Witness ==
    /\ VIRT_PARSERS = <<"cpu", "security", "input">>
    /\ ENABLED Register("cpu")

\* two parse(None) calls of the one parser have attached their new objects
C22_BoundTwice ==
    /\ pc = "done"
    /\ mode = "parse"
    /\ new_object
    /\ Len(guest) = Len(guest0) + 2

\* C22: binding is deterministic and leaves the mapping of the parser as
\* the constructor built it: whatever parse() and lookup calls have run,
\* self.optdict is the mapping of the option string; the two new objects
\* that two parse(None) calls of the same parser attach have equal
\* attribute values; and a second call after a successful first can fail
\* only in validate(), with the same attribute values bound.
C22_BindingIsDeterministic ==
    /\ (pc \notin {"new", "failed"} \/ (pc = "failed" /\ mode # "")) =>
          optdict = parse_optstr_to_dict(optstr, P.virtargs, P.remove_first).optdict
    /\ C22_BoundTwice => guest[Len(guest)] = guest[Len(guest) - 1]
    /\ (Failed /\ mode = "parse" /\ new_object /\ Len(guest) = Len(guest0) + 1) =>
          /\ err.kind = "validate"
          /\ newobj = guest[Len(guest)]

\* --security model=a,label=a twice: two seclabels with model a, label a
C22_Witness ==
    /\ C22_BoundTwice
    /\ cls = "security"
    /\ Len(optdict) = 2
    /\ guest[Len(guest)].props["model"] = va
    /\ guest[Len(guest) - 1].props["model"] = va

\* the mapping the constructor built from the option string
C23_Built == parse_optstr_to_dict(optstr, P.virtargs, P.remove_first).optdict

\* the option string has the bridge shortcut and neither type nor network
C23_BridgeShortcut ==
    /\ cls = "network"
    /\ dict_has(C23_Built, s_bridge)
    /\ ~dict_has(C23_Built, s_type)
    /\ ~dict_has(C23_Built, s_network)

\* parse() has run the _parse of the class
C23_Expanded == mode = "parse" /\ pc \in {"bind", "attach", "done", "failed"}

\* C23: for --network, bridge=br0 is expanded before binding into the two
\* entries type=bridge and source=br0, the key bridge being gone from the
\* mapping, so that it is bound without an unknown-option error (no such
\* error names bridge, and bridge=br0 alone can fail only in validate()):
\* the object the parse works on ends with type bridge and source br0.
C23_BridgeExpandsToTypeAndSource ==
    (C23_BridgeShortcut /\ C23_Expanded) =>
        /\ ~dict_has(optdict, s_bridge)
        /\ dict_get(optdict, s_type) = TYPE_BRIDGE
        /\ dict_get(optdict, s_source) = dict_get(C23_Built, s_bridge)
        /\ \A k \in {C23_Built[n][1] : n \in DOMAIN C23_Built} \ {s_bridge, s_source} :
              dict_has(optdict, k) /\ dict_get(optdict, k) = dict_get(C23_Built, k)
        /\ ~dict_has(leftover, s_bridge)
        /\ \A n \in DOMAIN err.keys : err.keys[n] # s_bridge
        /\ optstr = s_bridge \o eq \o s_br0 => err.kind \in {"", "validate"}
        /\ pc = "done" =>
              /\ guest[ret[1]].props["type"] = s_bridge
              /\ guest[ret[1]].props["source"] = dict_get(C23_Built, s_bridge)

\* --network bridge=br0: a new interface with type bridge and source br0
C23_Witness ==
    /\ cls = "network"
    /\ optstr = s_bridge \o eq \o s_br0
    /\ optdict = << <<s_type, s_bridge>>, <<s_source, s_br0>> >>
    /\ mode = "parse"
    /\ pc = "done"
    /\ new_object
    /\ guest[ret[1]].props["type"] = s_bridge
    /\ guest[ret[1]].props["source"] = s_br0

\* the descriptor of the param that parse_param is about to bind
C24_Descriptor == P.virtargs[params[pidx].virtarg]

\* the next param names an attribute path that the target object lacks,
\* and is not a skipped `default`
C24_PathMissing ==
    /\ pc = "bind"
    /\ pidx <= Len(params)
    /\ C24_Descriptor.propname # ""
    /\ C24_Descriptor.find_inst_cb = ""
    /\ C24_Descriptor.propname \notin DOMAIN cur_inst.props
    /\ ~(params[pidx].val = s_default /\ C24_Descriptor.ignore_default)

\* C24, the step: binding an entry whose attribute path is missing fails
\* with the programming error, reported with flag and option string, and
\* leaves every object as it was: no value assigned, no callback run.
C24_MissingPathStep ==
    (ParseParam /\ C24_PathMissing) =>
        /\ pc' = "failed"
        /\ err' = WrappedErr("programming error")
        /\ guest' = guest
        /\ newobj' = newobj

\* C24, the failure: the programming error is raised only for a missing
\* attribute path
C24_OnlyForMissingPath ==
    (Failed /\ err.kind = "programming error") =>
        /\ mode = "parse"
        /\ C24_Descriptor.propname # ""
        /\ C24_Descriptor.propname \notin DOMAIN cur_inst.props

\* C24: in construct mode, a descriptor whose attribute path does not
\* exist on the target object makes the bind fail with a programming
\* error; neither is its callback run nor a value assigned for that entry,
\* also when the descriptor has a conversion callback.
C24_MissingPathFailsLoudly == [][C24_MissingPathStep]_vars /\ []C24_OnlyForMissingPath

\* --cpu model=a on an object without a model attribute: the descriptor
\* of model has the callback set_model_cb
C24_Witness ==
    /\ cls = "cpu"
    /\ Failed
    /\ err.kind = "programming error"
    /\ params[pidx].key = s_model
    /\ C24_Descriptor.cb = "set_model_cb"
    /\ guest = guest0

\* parse(None) of a class backed by a list is past its early returns: it
\* has created the new object
C25_Creating ==
    /\ mode = "parse"
    /\ P.guest_propname # ""
    /\ P.prop_is_list
    /\ inst = 0
    /\ ~parse_returns_none(P, optstr)
    /\ pc \in {"claim", "bind", "attach", "done", "failed"}

\* C25: parse() of a class backed by a repeating collection, called without
\* an existing object and past its early returns, creates one new object
\* and binds the options onto it while the guest stays as it was; the
\* object is attached, as the one new entry of the guest, only when the
\* binding has succeeded and, with validate true, validate() has passed;
\* the returned list holds exactly the attached object; after a binding or
\* validation failure the guest is as it was.
C25_AttachAfterBindAndValidate ==
    C25_Creating =>
        /\ new_object
        /\ pc \in {"claim", "bind", "attach", "failed"} => guest = guest0
        /\ pc = "done" =>
              /\ guest = Append(guest0, newobj)
              /\ ret = <<Len(guest)>>
              /\ pidx > Len(params)
              /\ leftover = <<>>
        /\ pc = "attach" => (pidx > Len(params) /\ leftover = <<>>)

\* --security model=a with validate: the seclabel fails validate() and is
\* not attached
C25_Witness ==
    /\ C25_Creating
    /\ cls = "security"
    /\ validate
    /\ Failed
    /\ err.kind = "validate"
    /\ newobj.props["model"] = va
    /\ guest = guest0

\* --security model=a: the new seclabel is attached behind the two the
\* guest had
C25_WitnessAttached ==
    /\ C25_Creating
    /\ cls = "security"
    /\ pc = "done"
    /\ Len(guest0) = 2
    /\ Len(guest) = 3
    /\ ret = <<3>>
    /\ guest[3].props["model"] = va

-----------------------------------------------------------------------------
\* the cell index and the sibling index that a name carries
C26_Cell(key) == LET r == re_search_num(s_cell, key, 1) IN IF r >= 0 THEN r ELSE 0

C26_Sibling(key) == LET r == re_search_num(s_sibling, key, 1) IN IF r >= 0 THEN r ELSE 0

\* the names of the option string that the sibling id descriptor claims
C26_SiblingKeys ==
    { optdict[i][1] : i \in { j \in DOMAIN optdict : match_name(Arg(s_sibling_id, "id"), optdict[j][1]) } }

\* the cpu has no cell I, or its cell I has no sibling J
C26_NoCell(key) == C26_Cell(key) + 1 > Len(guest0[1].list)

C26_NoSibling(key) ==
    /\ ~C26_NoCell(key)
    /\ C26_Sibling(key) + 1 > Len(guest0[1].list[C26_Cell(key) + 1].list)

C26_Max(S) == IF S = {} THEN 0 ELSE CHOOSE n \in S : \A m \in S : m <= n

\* match mode: a sibling option whose cell or sibling is missing gives no
\* match, no error and no new cell or sibling
C26_MatchOutOfRange ==
    (/\ mode = "lookup" /\ pc \in {"done", "failed"}
     /\ \E k \in C26_SiblingKeys : C26_NoCell(k) \/ C26_NoSibling(k))
        => /\ pc = "done"
           /\ ret = <<>>
           /\ guest = guest0

\* the same for a missing sibling of a cell that exists
C26_MatchMissingSibling ==
    (/\ mode = "lookup" /\ pc \in {"done", "failed"}
     /\ \E k \in C26_SiblingKeys : C26_NoSibling(k)
     /\ \A k \in C26_SiblingKeys : ~C26_NoCell(k))
        => /\ pc = "done"
           /\ ret = <<>>
           /\ guest = guest0

\* construct mode: the cell list grows to the largest I + 1, the sibling
\* list of cell I to the largest J + 1 named for it, no other list grows
C26_ConstructGrows ==
    (/\ mode = "parse" /\ pc = "done" /\ C26_SiblingKeys # {}
     /\ \A i \in DOMAIN optdict : optdict[i][1] \in C26_SiblingKeys)
        => LET cells0 == guest0[1].list
               cells == guest[1].list
               want == C26_Max({Len(cells0)} \cup { C26_Cell(k) + 1 : k \in C26_SiblingKeys })
               had(c) == IF c <= Len(cells0) THEN Len(cells0[c].list) ELSE 0
               wantsib(c) == C26_Max({had(c)} \cup { C26_Sibling(k) + 1 : k \in { x \in C26_SiblingKeys : C26_Cell(x) + 1 = c } })
           IN /\ Len(cells) = want
              /\ \A c \in DOMAIN cells : Len(cells[c].list) = wantsib(c)

\* C26: for cellI.distances.siblingJ.id, match mode against a cpu without
\* cell I or without sibling J in cell I yields no match, raises no error
\* and creates nothing; construct mode grows the cell list to I + 1 entries
\* and only the sibling list of cell I to J + 1 entries
C26_DoublyIndexedOutOfRange == C26_MatchOutOfRange /\ C26_ConstructGrows

\* lookup of a sibling of a missing cell has failed
C26_Witness ==
    /\ mode = "lookup" /\ pc = "failed"
    /\ optstr = s_cell1_sibling0_id \o eq \o va
    /\ Len(guest0[1].list) = 1
    /\ err.kind = "AttributeError"
    /\ guest = guest0

-----------------------------------------------------------------------------
\* the parse calls the claim expects for one family: every occurrence in
\* command-line order when no object is passed, else the last occurrence
\* once for each object
C27_FamilyCalls(c) ==
    LET ol == pos.options[c]
    IN IF ol = <<>> THEN <<>>
       ELSE IF pos.instlist = <<0>>
       THEN [j \in 1..Len(ol) |-> <<c, 0, ol[j]>>]
       ELSE [j \in 1..Len(pos.instlist) |-> <<c, pos.instlist[j], ol[Len(ol)]>>]

RECURSIVE C27_Expected(_)
\* the calls expected for the first k registered families
C27_Expected(k) ==
    IF k = 0 THEN <<>>
    ELSE C27_Expected(k - 1) \o C27_FamilyCalls(VIRT_PARSERS[k])

C27_IsPrefix(a, b) == Len(a) <= Len(b) /\ SubSeq(b, 1, Len(a)) = a

\* C27: parse_option_strings visits the registered families in
\* registration order; with no object passed it parses every occurrence
\* of a family's flag in command-line order, with objects passed it parses
\* for each object only the last occurrence, once
C27_VisitOrder ==
    pos.at # "" =>
        /\ C27_IsPrefix(pos.calls, C27_Expected(Len(VIRT_PARSERS)))
        /\ pos.at = "returned" => pos.calls = C27_Expected(Len(VIRT_PARSERS))

\* two objects were passed with two occurrences of --input: the last
\* occurrence was parsed once for each
C27_Witness ==
    /\ pos.at = "returned"
    /\ pos.instlist = <<2, 1>>
    /\ pos.options["input"] = <<s_type \o eq \o vb, s_bus \o eq \o va>>
    /\ pos.calls = << <<"input", 2, s_bus \o eq \o va>>, <<"input", 1, s_bus \o eq \o va>> >>

\* no object was passed: --security was registered after --input, every
\* occurrence was parsed in order
C27_WitnessBuild ==
    /\ pos.at = "returned"
    /\ VIRT_PARSERS = <<"input", "security">>
    /\ pos.instlist = <<0>>
    /\ pos.calls = << <<"input", 0, s_bus \o eq \o va>>,
                      <<"security", 0, s_model \o eq \o va>>,
                      <<"security", 0, s_label \o eq \o va>> >>
    /\ Len(pos.guests["security"]) = MaxObjs + 2

-----------------------------------------------------------------------------
\* the errors of _VirtCLIArgument.__init__
C28_ConversionErrors == {"had no value set", "must be 'yes' or 'no'"}

\* a conversion failure of parse() leaves the target as it was and no
\* param has been bound
C28_ConversionFailure ==
    (mode = "parse" /\ Failed /\ err.kind \in C28_ConversionErrors) =>
        /\ guest = guest0
        /\ params = <<>>
        /\ new_object => newobj = NewObj(cls)

\* once parse() binds, every recognized entry has a value and every on/off
\* entry converts
C28_AllConverted ==
    (mode = "parse" /\ pc \in {"bind", "attach"}) =>
        \A i \in DOMAIN optdict :
            Recognized(optdict[i][1]) =>
                /\ optdict[i][2] # None
                /\ (KeyArg(optdict[i][1]).is_onoff /\ optdict[i][2] # <<>>) =>
                       on_off_convert(optdict[i][1], optdict[i][2]).err = ""

\* param i assigns its value to the attribute of the target itself
C28_Assigns(i) ==
    LET d == P.virtargs[params[i].virtarg]
    IN /\ d.cb = "" /\ d.find_inst_cb = ""
       /\ ~(params[i].val = s_default /\ d.ignore_default)

\* the unknown-options error of parse() comes after every param was bound:
\* each attribute holds the value of the last param that assigns it
C28_UnknownAfterBind ==
    (mode = "parse" /\ Failed /\ err.kind = "Unknown options") =>
        /\ params # <<>> => pidx > Len(params)
        /\ \A i \in DOMAIN params :
              (/\ C28_Assigns(i)
               /\ \A j \in DOMAIN params :
                     (j > i /\ C28_Assigns(j)) =>
                         P.virtargs[params[j].virtarg].propname # P.virtargs[params[i].virtarg].propname)
              => cur_inst.props[P.virtargs[params[i].virtarg].propname] = params[i].val

\* C28: in the generic construct bind every recognized entry is converted
\* before the first assignment or callback, so a missing value or a failed
\* boolean conversion ends the parse with the target unmodified; the
\* unknown-options error is raised only after all recognized options have
\* been applied to the target
C28_ConvertThenBindThenLeftover ==
    C28_ConversionFailure /\ C28_AllConverted /\ C28_UnknownAfterBind

\* --security model=a,relabel=maybe on an existing seclabel: the failed
\* conversion of relabel left model unset
C28_Witness ==
    /\ cls = "security" /\ mode = "parse" /\ Failed
    /\ optstr = s_model \o eq \o va \o <<",">> \o s_relabel \o eq \o <<"m", "a", "y", "b", "e">>
    /\ err.kind = "must be 'yes' or 'no'"
    /\ inst = 1
    /\ guest0[1] = NewObj(cls)
    /\ guest[1].props["model"] = None

\* --security model=a,x=b on an existing seclabel: the unknown option is
\* reported after model was set
C28_WitnessUnknown ==
    /\ cls = "security" /\ mode = "parse" /\ Failed
    /\ optstr = s_model \o eq \o va \o <<",">> \o <<"x">> \o eq \o vb
    /\ err.kind = "Unknown options"
    /\ inst = 1
    /\ guest0[1] = NewObj(cls)
    /\ guest[1].props["model"] = va

-----------------------------------------------------------------------------
\* a lookup has ended and the option string has a name no descriptor
\* recognizes
C29_LookupWithUnknown ==
    mode = "lookup" /\ pc \in {"done", "failed"} /\ Unclaimed # <<>>

\* without a candidate the lookup returns the empty list and no error
C29_NoCandidate ==
    (C29_LookupWithUnknown /\ objlist = <<>>) =>
        pc = "done" /\ ret = <<>> /\ err = NoErr

C29_Clean ==
    \A i \in DOMAIN optdict :
        Recognized(optdict[i][1]) =>
            /\ optdict[i][2] # None
            /\ (KeyArg(optdict[i][1]).is_onoff /\ optdict[i][2] # <<>>) =>
                   on_off_convert(optdict[i][1], optdict[i][2]).err = ""
            /\ KeyArg(optdict[i][1]).propname # "" \/ KeyArg(optdict[i][1]).lookup_cb # ""

-----------------------------------------------------------------------------
\* virtargs is empty or starts with clearxml and has no other clearxml
C30_ClearxmlFirst(virtargs) ==
    virtargs # <<>> =>
        /\ virtargs[1] = clearxml_virtarg
        /\ \A i \in DOMAIN virtargs : virtargs[i].cliname = clearxml => i = 1

\* every name of virtargs is registered once
C30_NamesOnce(virtargs) ==
    \A i, j \in DOMAIN virtargs :
        virtargs[i].cliname = virtargs[j].cliname => i = j

\* the registries of the families and the registry of the _ParserChar
\* family start with the one clearxml descriptor
C30_Registries ==
    /\ \A c \in Classes \cup {"network"} : C30_ClearxmlFirst(Parser(c).virtargs)
    /\ C30_ClearxmlFirst(cls_virtargs)

\* the registry of the family is filled by the first class and is the
\* same list, each name once, after every further class
C30_SharedRegistry ==
    /\ created # <<>> => cls_virtargs = ParserChar_init_class(<<>>)
    /\ C30_NamesOnce(cls_virtargs)
    /\ Len(cls_virtargs) \in {0, 14}

\* a clearxml param is bound before every other param
C30_ClearxmlBoundFirst ==
    \A i, j \in DOMAIN params :
        (P.virtargs[params[i].virtarg].cliname = clearxml
         /\ P.virtargs[params[j].virtarg].cliname # clearxml) => i < j

\* C30: every registry with a descriptor has the clearxml descriptor once,
\* at position 0, so clearxml is applied before any other option of the
\* option string; serial, parallel, channel and console share one registry
\* in which each name is registered once, however many of them are created
C30_ClearxmlFirstSharedOnce ==
    C30_Registries /\ C30_SharedRegistry /\ C30_ClearxmlBoundFirst

\* all five classes exist; --serial path=a,clearxml=yes on a device with a
\* source mode: the device was cleared, then path was set
C30_Witness ==
    /\ created = CharClasses
    /\ Len(cls_virtargs) = 14
    /\ cls = "serial" /\ mode = "parse" /\ pc = "done"
    /\ optstr = s_path \o eq \o va \o <<",">> \o clearxml \o eq \o s_yes
    /\ inst = 1
    /\ guest0[1].props["source_mode"] = vb
    /\ guest[1] = set_prop(NewObj(cls), "source_path", va)

=============================================================================
